---- MODULE Spec2Model ----
(***************************************************************************)
(* Finder-pattern detection of the qrcode reference design (qrcodes.hpp):  *)
(* otsu thresholding, pixels_setup binarisation, finder_scan run-length    *)
(* scanning, test_capstone probing and region_code allocation.             *)
(*                                                                         *)
(* The `float' of otsu is modelled as IEEE-754 binary32 with round to      *)
(* nearest, ties to even: a value is a record [s, m, e] standing for       *)
(* (-1)^s * m * 2^e with 2^23 <= m < 2^24, or m = 0 for zero.              *)
(***************************************************************************)
EXTENDS Integers, Sequences, FiniteSets, TLC

\* ---------------------------------------------------------------------
\* Program constants
\* ---------------------------------------------------------------------
UINT8_MAX == 255

QUIRC_PIXEL_WHITE == 0

QUIRC_PIXEL_BLACK == 1

QUIRC_PIXEL_REGION == 2

QUIRC_MAX_REGIONS == 254

\* ---------------------------------------------------------------------
\* binary32 arithmetic
\* ---------------------------------------------------------------------
\* F applied to the value of v, which is computed once
Let(v, F(_)) == CHOOSE r \in {F(x) : x \in {v}} : TRUE

F32Zero == [s |-> 0, m |-> 0, e |-> 0]

\* the number of bits of n, 0 <= n < 2^31
BitLen(n) == Cardinality({k \in 0..30 : 2^k <= n})

\* n * 2^e, n of more than 24 bits, cut by k bits to 24, ties to even
F32RoundCut(s, n, sticky, e, k) ==
  LET q == n \div 2^k
      r == n % 2^k
      q2 == IF r > 2^(k - 1) \/ (r = 2^(k - 1) /\ (sticky \/ q % 2 = 1))
            THEN q + 1 ELSE q
  IN  IF q2 = 2^24
      THEN [s |-> s, m |-> 2^23, e |-> e + k + 1]
      ELSE [s |-> s, m |-> q2, e |-> e + k]

\* n * 2^e (plus a nonzero fraction below the last bit of n when sticky)
\* rounded to a 24-bit significand, ties to even
F32Round(s, n, sticky, e) ==
  Let(n, LAMBDA nv :
    IF nv = 0 THEN F32Zero
    ELSE IF BitLen(nv) <= 24
    THEN [s |-> s, m |-> nv * 2^(24 - BitLen(nv)), e |-> e - (24 - BitLen(nv))]
    ELSE F32RoundCut(s, nv, sticky, e, BitLen(nv) - 24))

\* conversion of an unsigned integer to float
IntToF32(n) == F32Round(0, n, FALSE, 0)

\* |a| >= |b|
F32MagGeq(a, b) ==
  IF b.m = 0 THEN TRUE
  ELSE IF a.m = 0 THEN FALSE
  ELSE a.e > b.e \/ (a.e = b.e /\ a.m >= b.m)

F32Neg(a) == IF a.m = 0 THEN a ELSE [s |-> 1 - a.s, m |-> a.m, e |-> a.e]

\* big + small or big - small for |big| >= |small| > 0: the smaller operand
\* is aligned below six guard bits and the bits shifted out are kept as
\* the sticky bit
F32AddAligned(big, small, d) ==
  IF d <= 6
  THEN F32Round(big.s,
                IF big.s = small.s THEN big.m * 2^d + small.m
                                   ELSE big.m * 2^d - small.m,
                FALSE, small.e)
  ELSE LET fl == IF d - 6 >= 25 THEN 0 ELSE small.m \div 2^(d - 6)
           st == IF d - 6 >= 25 THEN TRUE ELSE small.m % 2^(d - 6) # 0
       IN  F32Round(big.s,
                    IF big.s = small.s THEN big.m * 64 + fl
                    ELSE big.m * 64 - fl - (IF st THEN 1 ELSE 0),
                    st, big.e - 6)

\* a + b
F32Add(x, y) ==
  Let(<<x, y>>, LAMBDA ab :
    IF ab[1].m = 0 THEN ab[2]
    ELSE IF ab[2].m = 0 THEN ab[1]
    ELSE IF F32MagGeq(ab[1], ab[2])
    THEN F32AddAligned(ab[1], ab[2], ab[1].e - ab[2].e)
    ELSE F32AddAligned(ab[2], ab[1], ab[2].e - ab[1].e))

\* a - b
F32Sub(x, y) == F32Add(x, F32Neg(y))

\* the 48-bit product of two 24-bit significands, formed from 12-bit
\* limbs, as <<upper 24 bits, lower 24 bits>>
F32Product(am, bm) ==
  LET mid == (am \div 4096) * (bm % 4096) + (am % 4096) * (bm \div 4096)
      lo == (am % 4096) * (bm % 4096) + (mid % 4096) * 4096
  IN  <<(am \div 4096) * (bm \div 4096) + mid \div 4096 + lo \div 2^24,
        lo % 2^24>>

\* the product of two nonzero floats
F32MulNonzero(a, b) ==
  LET p == F32Product(a.m, b.m)
  IN  F32Round((a.s + b.s) % 2, p[1] * 64 + p[2] \div 2^18,
               p[2] % 2^18 # 0, a.e + b.e + 18)

\* a * b
F32Mul(x, y) ==
  Let(<<x, y>>, LAMBDA ab :
    IF ab[1].m = 0 \/ ab[2].m = 0 THEN F32Zero
    ELSE F32MulNonzero(ab[1], ab[2]))

\* 7 more quotient bits: <<quotient, remainder>> after <<q, r>>
F32DivStep(qr, bm) ==
  <<qr[1] * 128 + (qr[2] * 128) \div bm, (qr[2] * 128) % bm>>

\* the quotient of two nonzero floats: 28 quotient bits by long division,
\* 7 bits a step
F32DivNonzero(a, b) ==
  LET qr0 == <<a.m \div b.m, a.m % b.m>>
      qr1 == F32DivStep(qr0, b.m)
      qr2 == F32DivStep(qr1, b.m)
      qr3 == F32DivStep(qr2, b.m)
      qr4 == F32DivStep(qr3, b.m)
  IN  F32Round((a.s + b.s) % 2, qr4[1], qr4[2] # 0, a.e - b.e - 28)

\* a / b, b nonzero
F32Div(x, y) ==
  Let(<<x, y>>, LAMBDA ab :
    IF ab[1].m = 0 THEN F32Zero ELSE F32DivNonzero(ab[1], ab[2]))

\* a >= b
F32Geq(a, b) ==
  IF a.m = 0 THEN b.m = 0 \/ b.s = 1
  ELSE IF b.m = 0 THEN a.s = 0
  ELSE IF a.s # b.s THEN a.s = 0
  ELSE IF a.s = 0 THEN F32MagGeq(a, b) ELSE F32MagGeq(b, a)

\* ---------------------------------------------------------------------
\* Thresholder: otsu
\* ---------------------------------------------------------------------
\* histogram[image_ptr[i]]++ for every pixel
Histogram(image) ==
  [v \in 0..UINT8_MAX |-> Cardinality({p \in DOMAIN image : image[p] = v})]

\* sum += i * histogram[i] for i = first..last, accumulated in float; the
\* range is taken half by half, which runs the iterations in loop order
RECURSIVE WeightedSumRange(_, _, _, _)
WeightedSumRange(histogram, first, last, sum) ==
  IF first > last THEN sum
  ELSE IF first = last
  THEN F32Add(sum, IntToF32(first * histogram[first]))
  ELSE Let(WeightedSumRange(histogram, first, (first + last) \div 2, sum),
           LAMBDA sum2 :
         WeightedSumRange(histogram, (first + last) \div 2 + 1, last, sum2))

\* for (int i = first; i <= UINT8_MAX; i++) sum += i * histogram[i];
WeightedSum(histogram, first, sum) ==
  WeightedSumRange(histogram, first, UINT8_MAX, sum)

\* the locals of otsu before the threshold loop
OtsuStart ==
  [i |-> -1, q1 |-> 0, sumB |-> <<F32Zero, F32Zero, F32Zero>>,
   max |-> F32Zero, threshold |-> 0,
   evaluated |-> FALSE, q2 |-> 0, runningSum |-> F32Zero,
   variance |-> F32Zero]

\* `variance <= max' in place of `variance >= max'
OtsuKeepReversed(variance, max) == F32Geq(max, variance)

\* `variance > max' in place of `variance >= max'
OtsuKeepStrict(variance, max) == ~F32Geq(max, variance)

\* if (variance >= max): the candidate replaces the running maximum
OtsuKeep(variance, max) == F32Geq(variance, max)

\* float m1 = runningSum / q1; float m2 = (sum - runningSum) / q2;
\* float variance = (m1 - m2) * (m1 - m2) * q1 * q2;
OtsuVariance(sum, runningSum, q1, q2) ==
  Let(F32Sub(F32Div(runningSum, IntToF32(q1)),
             F32Div(F32Sub(sum, runningSum), IntToF32(q2))),
      LAMBDA m1m2 :
    F32Mul(F32Mul(F32Mul(m1m2, m1m2), IntToF32(q1)), IntToF32(q2)))

\* the three lanes of sumB after the shift: sumB[0] + i * histogram[i]
\* enters at the last lane
OtsuShift(histogram, i, sumB) ==
  <<sumB[2], sumB[3], F32Add(sumB[1], IntToF32(i * histogram[i]))>>

\* the newest lane left out of the sum
OtsuRunningSumLagging(sumB) ==
  F32Add(F32Add(F32Zero, sumB[1]), sumB[2])

\* runningSum = 0; runningSum += sumB[j] for j = 0..2
OtsuRunningSum(sumB) ==
  F32Add(F32Add(F32Add(F32Zero, sumB[1]), sumB[2]), sumB[3])

\* `threshold = i + 1' in place of `threshold = i'
OtsuEvaluateNext(histogram, sum, i, st, q1, q2) ==
  Let(OtsuShift(histogram, i, st.sumB), LAMBDA sumB :
  Let(OtsuRunningSum(sumB), LAMBDA runningSum :
  Let(OtsuVariance(sum, runningSum, q1, q2), LAMBDA variance :
    [i |-> i, q1 |-> q1, sumB |-> sumB,
     max |-> IF OtsuKeep(variance, st.max) THEN variance ELSE st.max,
     threshold |-> IF OtsuKeep(variance, st.max) THEN i + 1
                   ELSE st.threshold,
     evaluated |-> TRUE, q2 |-> q2, runningSum |-> runningSum,
     variance |-> variance])))

\* the variance computation of one iteration, q1 > 0 and q2 > 0: the
\* locals after it. q2, runningSum and variance record the values computed.
OtsuEvaluate(histogram, sum, i, st, q1, q2) ==
  Let(OtsuShift(histogram, i, st.sumB), LAMBDA sumB :
  Let(OtsuRunningSum(sumB), LAMBDA runningSum :
  Let(OtsuVariance(sum, runningSum, q1, q2), LAMBDA variance :
    [i |-> i, q1 |-> q1, sumB |-> sumB,
     max |-> IF OtsuKeep(variance, st.max) THEN variance ELSE st.max,
     threshold |-> IF OtsuKeep(variance, st.max) THEN i ELSE st.threshold,
     evaluated |-> TRUE, q2 |-> q2, runningSum |-> runningSum,
     variance |-> variance])))

\* `threshold = i' moved ahead of the two early exits
OtsuSkipTracks(i, st, q1, q2) ==
  [i |-> i, q1 |-> q1, sumB |-> st.sumB, max |-> st.max,
   threshold |-> i, evaluated |-> FALSE,
   q2 |-> q2, runningSum |-> st.runningSum, variance |-> st.variance]

\* the locals after an iteration that leaves at `continue' or `break'
OtsuSkip(i, st, q1, q2) ==
  [i |-> i, q1 |-> q1, sumB |-> st.sumB, max |-> st.max,
   threshold |-> st.threshold, evaluated |-> FALSE,
   q2 |-> q2, runningSum |-> st.runningSum, variance |-> st.variance]

\* one iteration of the threshold loop at candidate i: the locals after it.
\* evaluated tells whether the iteration reached the variance computation.
OtsuIter(histogram, numPixels, sum, i, st) ==
  IF st.q1 + histogram[i] = 0 \/ numPixels - (st.q1 + histogram[i]) = 0
  THEN OtsuSkip(i, st, st.q1 + histogram[i],
                numPixels - (st.q1 + histogram[i]))
  ELSE OtsuEvaluate(histogram, sum, i, st, st.q1 + histogram[i],
                    numPixels - (st.q1 + histogram[i]))

\* `break' once the foreground is empty
OtsuBroke(st) == st.q1 # 0 /\ st.q2 = 0

\* the threshold loop over candidates first..last (first <= last): the
\* locals after each iteration it executes; `continue' while q1 = 0,
\* `break' once q2 = 0. The range is taken half by half, the second half
\* starting from the locals the first half left.
RECURSIVE OtsuLoopRange(_, _, _, _, _, _)
OtsuLoopRange(histogram, numPixels, sum, first, last, st) ==
  IF first = last THEN <<OtsuIter(histogram, numPixels, sum, first, st)>>
  ELSE Let(OtsuLoopRange(histogram, numPixels, sum, first,
                         (first + last) \div 2, st),
           LAMBDA seg :
         IF OtsuBroke(seg[Len(seg)])
         THEN seg
         ELSE seg \o OtsuLoopRange(histogram, numPixels, sum,
                                   (first + last) \div 2 + 1, last,
                                   seg[Len(seg)]))

\* the threshold loop over i = first..UINT8_MAX
OtsuLoop(histogram, numPixels, sum, first, st) ==
  OtsuLoopRange(histogram, numPixels, sum, first, UINT8_MAX, st)

\* the iterations otsu executes on an image
OtsuRun(image) ==
  Let(Histogram(image), LAMBDA histogram :
  Let(WeightedSum(histogram, 0, F32Zero), LAMBDA sum :
    OtsuLoop(histogram, Len(image), sum, 0, OtsuStart)))

\* uint8_t otsu(image_ptr): the threshold left by the last iteration
otsu(image) == Let(OtsuRun(image), LAMBDA run : run[Len(run)].threshold)

\* ---------------------------------------------------------------------
\* Binarizer: pixels_setup
\* ---------------------------------------------------------------------
\* `<=' in place of `<'
PixelOfLeq(v, threshold) ==
  IF v <= threshold THEN QUIRC_PIXEL_BLACK ELSE QUIRC_PIXEL_WHITE

\* (image_ptr[i] < threshold) ? QUIRC_PIXEL_BLACK : QUIRC_PIXEL_WHITE
PixelOf(v, threshold) ==
  IF v < threshold THEN QUIRC_PIXEL_BLACK ELSE QUIRC_PIXEL_WHITE

pixels_setup(image, threshold) ==
  [i \in DOMAIN image |-> PixelOf(image[i], threshold)]

\* ---------------------------------------------------------------------
\* Region Resolver: region_code
\* ---------------------------------------------------------------------
\* a region entry after memset(decoder, 0, sizeof(*decoder))
ZeroRegion == [seed |-> [x |-> 0, y |-> 0], count |-> 0, capstone |-> 0]

\* the region table of a recognizer that was just zeroed
ZeroRegions == [i \in 0..(QUIRC_MAX_REGIONS - 1) |-> ZeroRegion]

\* memset(box, 0, sizeof(*box)); box->seed.x = x; box->seed.y = y;
\* box->capstone = -1;
RegionBox(x, y) == [seed |-> [x |-> x, y |-> y], count |-> 0, capstone |-> -1]

\* the store through box = &regions[idx]; an index past the array is
\* written all the same and shows as a new index of the table
WriteRegion(regs, idx, box) ==
  [i \in DOMAIN regs \cup {idx} |-> IF i = idx THEN box ELSE regs[i]]

\* `>' in place of `>='
RegionFullOffByOne(nr) == nr > QUIRC_MAX_REGIONS

\* one region short of the table
RegionFullEarly(nr) == nr >= QUIRC_MAX_REGIONS - 1

\* if (*num_regions >= QUIRC_MAX_REGIONS) return -1;
RegionFull(nr) == nr >= QUIRC_MAX_REGIONS

\* pixels_ptr[y * w + x], the grid being row-major from index 1
PixelAt(kW, pixels, x, y) == pixels[y * kW + x + 1]

\* the region's id is stored into the seed pixel
RegionStoresSeed(kW, pixels, x, y, region) ==
  [pixels EXCEPT ![y * kW + x + 1] = region]

\* the grid after an allocation at (x, y): lines 176-187 store nothing
\* through pixels_ptr (the call of flood_fill_seed is commented out)
RegionStores(kW, pixels, x, y, region) == pixels

\* the seed is stored as (y, x)
RegionAllocSwapped(kW, pixels, nr, regs, x, y) ==
  [ret |-> nr, num_regions |-> nr + 1,
   regions |-> WriteRegion(regs, nr, RegionBox(y, x)),
   pixels |-> RegionStores(kW, pixels, x, y, nr)]

\* num_regions is not advanced
RegionAllocStuck(kW, pixels, nr, regs, x, y) ==
  [ret |-> nr, num_regions |-> nr,
   regions |-> WriteRegion(regs, nr, RegionBox(x, y)),
   pixels |-> RegionStores(kW, pixels, x, y, nr)]

\* region = *num_regions; box = &regions[(*num_regions)++]; ...; return region;
RegionAlloc(kW, pixels, nr, regs, x, y) ==
  [ret |-> nr, num_regions |-> nr + 1,
   regions |-> WriteRegion(regs, nr, RegionBox(x, y)),
   pixels |-> RegionStores(kW, pixels, x, y, nr)]

\* a return that leaves everything as it was
RegionReturn(ret, pixels, nr, regs) ==
  [ret |-> ret, num_regions |-> nr, regions |-> regs, pixels |-> pixels]

\* the test against the right edge is left out
RegionOutsideNoRight(kW, kH, x, y) == x < 0 \/ y < 0 \/ y >= kH

\* if (x < 0 || y < 0 || x >= w || y >= h) return -1;
RegionOutside(kW, kH, x, y) == x < 0 \/ y < 0 \/ x >= kW \/ y >= kH

\* `>' in place of `>='
RegionLabelledStrict(pixel) == pixel > QUIRC_PIXEL_REGION

\* if (pixel >= QUIRC_PIXEL_REGION) return pixel;
RegionLabelled(pixel) == pixel >= QUIRC_PIXEL_REGION

\* the test is made against QUIRC_PIXEL_BLACK
RegionWhiteSwapped(pixel) == pixel = QUIRC_PIXEL_BLACK

\* if (pixel == QUIRC_PIXEL_WHITE) return -1;
RegionWhite(pixel) == pixel = QUIRC_PIXEL_WHITE

\* region_code<w, h>(pixels_ptr, num_regions, regions, x, y): the value
\* returned and *num_regions, regions[] and pixels_ptr[] after the call
region_code(kW, kH, pixels, nr, regs, x, y) ==
  IF RegionOutside(kW, kH, x, y)
  THEN RegionReturn(-1, pixels, nr, regs)
  ELSE IF RegionLabelled(PixelAt(kW, pixels, x, y))
  THEN RegionReturn(PixelAt(kW, pixels, x, y), pixels, nr, regs)
  ELSE IF RegionWhite(PixelAt(kW, pixels, x, y))
  THEN RegionReturn(-1, pixels, nr, regs)
  ELSE IF RegionFull(nr)
  THEN RegionReturn(-1, pixels, nr, regs)
  ELSE RegionAlloc(kW, pixels, nr, regs, x, y)

\* the offsets into pixels_ptr that one region_code call reads: the one
\* load pixel = pixels_ptr[y * w + x], made once the bounds test has passed
region_code_reads(kW, kH, x, y) ==
  IF RegionOutside(kW, kH, x, y) THEN {} ELSE {y * kW + x}

\* ---------------------------------------------------------------------
\* Row Scanner: test_capstone and the body of finder_scan
\* ---------------------------------------------------------------------
\* the first probe made at column x itself
test_capstone_at_x(kW, kH, pixels, nr, regs, x, y, pb) ==
  Let(region_code(kW, kH, pixels, nr, regs, x, y),
      LAMBDA r1 :
  Let(region_code(kW, kH, r1.pixels, r1.num_regions, r1.regions,
                  x - pb[5] - pb[4] - pb[3], y),
      LAMBDA r2 :
  Let(region_code(kW, kH, r2.pixels, r2.num_regions, r2.regions,
                  x - pb[5] - pb[4] - pb[3] - pb[2] - pb[1], y),
      LAMBDA r3 :
    [ring_right |-> r1.ret, stone |-> r2.ret, ring_left |-> r3.ret,
     num_regions |-> r3.num_regions, regions |-> r3.regions,
     pixels |-> r3.pixels])))

\* test_capstone<w, h>(pixels_ptr, num_regions, regions, x, y, pb): the
\* three probes, in order, each seeing the table the one before left.
\* The unsigned differences are converted to int, which gives the
\* mathematical difference for every x below 2^31.
test_capstone(kW, kH, pixels, nr, regs, x, y, pb) ==
  Let(region_code(kW, kH, pixels, nr, regs, x - pb[5], y),
      LAMBDA r1 :
  Let(region_code(kW, kH, r1.pixels, r1.num_regions, r1.regions,
                  x - pb[5] - pb[4] - pb[3], y),
      LAMBDA r2 :
  Let(region_code(kW, kH, r2.pixels, r2.num_regions, r2.regions,
                  x - pb[5] - pb[4] - pb[3] - pb[2] - pb[1], y),
      LAMBDA r3 :
    [ring_right |-> r1.ret, stone |-> r2.ret, ring_left |-> r3.ret,
     num_regions |-> r3.num_regions, regions |-> r3.regions,
     pixels |-> r3.pixels])))

\* every probe made at the column of ring_right
ProbeAtRingRight(stage, x, pb) == x - pb[5]

\* the column of the probe test_capstone makes as its first, second and
\* third region_code call
ProbeAt(stage, x, pb) ==
  IF stage = 1 THEN x - pb[5]
  ELSE IF stage = 2 THEN x - pb[5] - pb[4] - pb[3]
  ELSE x - pb[5] - pb[4] - pb[3] - pb[2] - pb[1]

\* the locals of one finder_scan call at its entry; stage is 0 at the
\* top of the loop body and 1, 2 or 3 before the first, second or third
\* probe of test_capstone
RowEntry ==
  [x |-> 0, last_color |-> 0, run_length |-> 0, run_count |-> 0,
   pb |-> <<0, 0, 0, 0, 0>>, stage |-> 0]

\* int color = row[x] ? 1 : 0;
ScanColor(v) == IF v # 0 THEN 1 ELSE 0

\* const int scale = 16;
scale == 16

\* static const unsigned int check[5] = {1, 1, 3, 1, 1};
check == <<1, 1, 3, 1, 1>>

\* the stone element is averaged in as well
ScanAvgAll(pb) == ((pb[1] + pb[2] + pb[3] + pb[4] + pb[5]) * scale) \div 5

\* avg = (pb[0] + pb[1] + pb[3] + pb[4]) * scale / 4;
ScanAvg(pb) == ((pb[1] + pb[2] + pb[4] + pb[5]) * scale) \div 4

\* err = avg * 3 / 4;
ScanErr(avg) == (avg * 3) \div 4

\* the loop over i that clears ok.  err <= avg and check[i] >= 1, so the
\* unsigned check[i] * avg - err does not wrap.
ScanRatioOk(pb) ==
  Let(ScanAvg(pb), LAMBDA avg :
  Let(ScanErr(avg), LAMBDA err :
    \A i \in 1..5 :
      ~(pb[i] * scale < check[i] * avg - err \/ pb[i] * scale > check[i] * avg + err)))

\* the run is stored without moving the window
ScanShiftNoMove(pb, run_length) == <<pb[1], pb[2], pb[3], pb[4], run_length>>

\* the run length enters the window at its oldest end
ScanShiftFront(pb, run_length) == <<run_length, pb[1], pb[2], pb[3], pb[4]>>

\* memmove(pb, pb + 1, sizeof(pb[0]) * 4); pb[4] = run_length;
ScanShift(pb, run_length) == <<pb[2], pb[3], pb[4], pb[5], run_length>>

\* ---------------------------------------------------------------------
\* Recognizer storage: quirc_new, quirc_resize, load_png
\* ---------------------------------------------------------------------
NULL == 0

\* quirc_pixel_t is uint8_t: q->pixels aliases q->image
QUIRC_PIXEL_ALIAS_IMAGE == 1

\* sizeof(struct quirc_flood_fill_vars): four ints
SizeofFloodFillVars == 16

\* memset(q, 0, sizeof(*q)): the storage fields of a new recognizer
ZeroQuirc ==
  [w |-> 0, h |-> 0, image |-> NULL, pixels |-> NULL,
   flood_fill_vars |-> NULL, num_flood_fill_vars |-> 0]

\* the heap holds no block
EmptyHeap == [a \in {} |-> << >>]

\* the blocks of the heap: address -> [size, data]
Live(heap) == DOMAIN heap

\* free(p): free(NULL) does nothing
Free(heap, p) == [a \in Live(heap) \ {p} |-> heap[a]]

\* a block of n bytes placed at address p
Place(heap, p, block) ==
  [a \in Live(heap) \cup {p} |-> IF a = p THEN block ELSE heap[a]]

\* calloc(n, 1): n zero bytes
Calloc(n) == [size |-> n, data |-> [k \in 1..n |-> 0]]

\* malloc(n): n bytes of indeterminate value, which the code never loads
Malloc(n) == [size |-> n, data |-> << >>]

\* the bytes of the block at p; NULL holds none
Bytes(heap, p) == IF p = NULL THEN << >> ELSE heap[p].data

\* memcpy(image, q->image, min) into a block of zeroes
Memcpy(block, src, min) ==
  [block EXCEPT !.data =
     [k \in 1..block.size |-> IF k <= min THEN src[k] ELSE block.data[k]]]

\* num_vars = (size_t)h * 2 / 3; if (num_vars == 0) num_vars = 1;
NumVars(h) == IF (h * 2) \div 3 = 0 THEN 1 ELSE (h * 2) \div 3

\* the update of q moved ahead of the allocation of the work area
ResizeFailsDirty(q, heap, w, h, image) ==
  [ret |-> -1, q |-> [q EXCEPT !.w = w, !.h = h], heap |-> Free(heap, image)]

\* a failure return after image was allocated: free(image); free(pixels);
\* free(vars); return -1, pixels and vars being NULL
ResizeFails(q, heap, w, h, image) ==
  [ret |-> -1, q |-> q, heap |-> Free(heap, image)]

\* alloc succeeded, update `q' with the new size and buffers
ResizeCommits(q, heap, w, h, image, pixels, vars) ==
  [ret |-> 0,
   q |-> [w |-> w, h |-> h, image |-> image,
          pixels |-> IF QUIRC_PIXEL_ALIAS_IMAGE = 0 THEN pixels
                     ELSE q.pixels,
          flood_fill_vars |-> vars,
          num_flood_fill_vars |-> NumVars(h)],
   heap |-> Place(
              Free(
                IF QUIRC_PIXEL_ALIAS_IMAGE = 0
                THEN Free(Free(heap, q.image), q.pixels)
                ELSE Free(heap, q.image),
                q.flood_fill_vars),
              vars, Malloc(SizeofFloodFillVars * NumVars(h)))]

\* quirc_resize from the allocation of the work area on; heap holds the
\* new image (and pixels) already
ResizeVars(q, heap, w, h, image, pixels, vars) ==
  IF (h * 2) \div 2 # h
  THEN ResizeFails(q, Free(heap, pixels), w, h, image)
  ELSE IF (SizeofFloodFillVars * NumVars(h)) \div SizeofFloodFillVars
            # NumVars(h)
  THEN ResizeFails(q, Free(heap, pixels), w, h, image)
  ELSE IF vars = NULL
  THEN ResizeFails(q, Free(heap, pixels), w, h, image)
  ELSE ResizeCommits(q, heap, w, h, image, pixels, vars)

\* min = (olddim < newdim ? olddim : newdim)
ResizeMin(q, w, h) == IF q.w * q.h < w * h THEN q.w * q.h ELSE w * h

\* int quirc_resize(struct quirc *q, int w, int h); image, pixels and vars
\* are what calloc, calloc and malloc return when the call reaches them
quirc_resize(q, heap, w, h, image, pixels, vars) ==
  IF w < 0 \/ h < 0 THEN [ret |-> -1, q |-> q, heap |-> heap]
  ELSE IF image = NULL THEN [ret |-> -1, q |-> q, heap |-> heap]
  ELSE LET copied == Place(heap, image,
                           Memcpy(Calloc(w * h), Bytes(heap, q.image),
                                  ResizeMin(q, w, h)))
       IN  IF QUIRC_PIXEL_ALIAS_IMAGE # 0
           THEN ResizeVars(q, copied, w, h, image, NULL, vars)
           ELSE IF pixels = NULL
           THEN ResizeFails(q, copied, w, h, image)
           ELSE ResizeVars(q, Place(copied, pixels, Calloc(w * h)),
                           w, h, image, pixels, vars)

\* png_read_rows for every row: the decoded bytes, all of level v
ReadRows(heap, image, v) ==
  [heap EXCEPT ![image].data = [k \in 1..heap[image].size |-> v]]

\* ---------------------------------------------------------------------
\* Host pipes: host_pipes.cpp and host_pipes_with_sideband_signals.cpp
\* ---------------------------------------------------------------------
\* int count = 16;
count == 16

\* the capacity of PipeIn and of PipeOut
PipeCapacity == 8

\* int SomethingComplicated(int val) { return (int)(val * sqrt(val)); }
\* for val >= 0: the integer part of the square root of val * val * val
SomethingComplicated(val) ==
  CHOOSE r \in 0..(val * val) :
    /\ r * r <= val * val * val
    /\ (r + 1) * (r + 1) > val * val * val

\* StreamingBeatT b(data, sop, eop, empty)
StreamingBeat(data, sop, eop, empty) ==
  [data |-> data, sop |-> sop, eop |-> eop, empty |-> empty]

\* what the host writes at index i: i itself, or with sideband signals
\* StreamingBeatT b_in(i, i == 0, i == count - 1, 0)
HostBeat(sideband, i) ==
  IF sideband THEN StreamingBeat(i, i = 0, i = count - 1, 0) ELSE i

\* d = b_in.data; val_device = b_out.data
BeatData(sideband, b) == IF sideband THEN b.data ELSE b

\* auto r = SomethingComplicated(d); StreamingBeatT b_out(r, sop, eop, empty)
KernelBeat(sideband, b) ==
  IF sideband
  THEN StreamingBeat(SomethingComplicated(b.data), b.sop, b.eop, b.empty)
  ELSE SomethingComplicated(b)

\* a write blocks while the pipe holds as many words as it can store
PipeFull(pipe, capacity) == Len(pipe) >= capacity

\* a read blocks while the pipe is empty
PipeEmpty(pipe) == Len(pipe) = 0

\* write: the word joins the pipe behind the words it holds
PipeWrite(pipe, word) == Append(pipe, word)

\* a read that takes the word written last
PipeFrontNewest(pipe) == pipe[Len(pipe)]

\* read: the word written first
PipeFront(pipe) == Head(pipe)

\* the pipe once its first word was read
PipeRest(pipe) == Tail(pipe)

\* passed &= (val_device == val_host)
HostVerify(sideband, passed, beat, i) ==
  passed /\ BeatData(sideband, beat) = SomethingComplicated(i)

\* ---------------------------------------------------------------------
\* Bi-directional transfers: bi_directional_mem_BW.cpp
\* ---------------------------------------------------------------------
\* size_t num_transfers = total_bytes / block_bytes;
NumTransfers(total_bytes, block_bytes) == total_bytes \div block_bytes

\* the bytes of transfer i: buf_offset = i * block_bytes, buf_range =
\* block_bytes, as indexes from 1
BlockRange(i, block_bytes) ==
  (i * block_bytes + 1)..(i * block_bytes + block_bytes)

\* the copy of one block between two arrays
CopyBlock(dst, src, i, block_bytes) ==
  [k \in DOMAIN dst |->
     IF k \in BlockRange(i, block_bytes) THEN src[k] ELSE dst[k]]

\* sycl::accessor<char, 1, sycl::access::mode::read> mem2(device_buffer2,
\* ...); h.copy(mem2, &host_buffer2[buf_offset]);
ReadSource(device_buffer1, device_buffer2) == device_buffer2

\* passed &= host_buffer1[i] == host_buffer2[i] for every i
BuffersEqual(host_buffer1, host_buffer2) ==
  \A k \in DOMAIN host_buffer1 : host_buffer1[k] = host_buffer2[k]

\* ---------------------------------------------------------------------
\* Bounds of the thresholder inputs
\* ---------------------------------------------------------------------
\* numPixels = w * h of the small images
NumPixels == 4

\* the small images take their grey levels in 0..MaxLevel
MaxLevel == 2

\* the two peaks of the bimodal images
BimodalLevels == {50, 200}

\* a 4 x 4 image two of whose candidate classes have variances that differ
\* by less than the rounding error of the single-precision computation
NearTieImage ==
  <<57, 82, 217, 111, 15, 135, 69, 185, 110, 127, 229, 195, 140, 82, 15, 202>>

SeqsOver(S, n) == [1..n -> S]

SmallImages == SeqsOver(0..MaxLevel, NumPixels)

BimodalImages == UNION {SeqsOver(BimodalLevels, n) : n \in 2..NumPixels}

\* the images all of whose pixels hold one grey level
UniformImages == {[k \in 1..NumPixels |-> v] : v \in 0..UINT8_MAX}

Images ==
  SmallImages \cup BimodalImages \cup UniformImages \cup {NearTieImage}

\* the thresholds handed to pixels_setup by a direct caller
ThresholdInputs == 0..UINT8_MAX

\* ---------------------------------------------------------------------
\* Bounds of the region resolver inputs
\* ---------------------------------------------------------------------
\* the grids handed to region_code by a direct caller: 2 x 2, row-major,
\* with WHITE, BLACK and already labelled pixels
RegionGrids ==
  { <<QUIRC_PIXEL_BLACK, QUIRC_PIXEL_WHITE, 2, QUIRC_PIXEL_BLACK>>,
    <<QUIRC_PIXEL_WHITE, QUIRC_PIXEL_BLACK, QUIRC_PIXEL_BLACK, 255>>,
    <<QUIRC_PIXEL_WHITE, 3, QUIRC_PIXEL_WHITE, QUIRC_PIXEL_BLACK>>,
    <<QUIRC_PIXEL_WHITE, QUIRC_PIXEL_WHITE, 253, QUIRC_PIXEL_WHITE>> }

\* a direct caller chooses freely among the BLACK pixels for the first
\* VariedAllocs allocations and seeds the later ones at the first BLACK
\* pixel of the grid
VariedAllocs == 1

\* ---------------------------------------------------------------------
\* Bounds of the row scanner inputs
\* ---------------------------------------------------------------------
\* the width of the exhaustively enumerated single-row grids
ScanWidth == 10

\* the number of rows of the stacked grid
ScanRows == 3

RECURSIVE FromRuns(_, _)
\* the row made of runs of the given lengths, the first of colour color
FromRuns(runs, color) ==
  IF runs = << >> THEN << >>
  ELSE [i \in 1..Head(runs) |-> color] \o FromRuns(Tail(runs), 1 - color)

\* W10 B10 W10 B30 W10 B10 W10
SyntheticRow == FromRuns(<<10, 10, 10, 30, 10, 10, 10>>, QUIRC_PIXEL_WHITE)

\* W1 B1 W1 B3 W1 B1 W2, the same row on every line
StackedRow == FromRuns(<<1, 1, 1, 3, 1, 1, 2>>, QUIRC_PIXEL_WHITE)

Stacked(row, n) == [i \in 1..(Len(row) * n) |-> row[((i - 1) % Len(row)) + 1]]

\* the number of rows scanned in parallel
ParRows == 2

\* the grids whose rows are scanned in parallel
ParGrids ==
  {[w |-> Len(StackedRow), h |-> ParRows,
    pixels |-> Stacked(StackedRow, ParRows)]}

\* B1 W1 B3 W1 B1 W1 B3 W1 B1 W1: two candidates, the last run of the
\* first being the first run of the second
SharedRow == FromRuns(<<1, 1, 3, 1, 1, 1, 3, 1, 1, 1>>, QUIRC_PIXEL_BLACK)

ScanGrids ==
  {[w |-> ScanWidth, h |-> 1, pixels |-> p] :
     p \in [1..ScanWidth -> {QUIRC_PIXEL_WHITE, QUIRC_PIXEL_BLACK}]}
  \cup {[w |-> Len(SyntheticRow), h |-> 1, pixels |-> SyntheticRow]}
  \cup {[w |-> Len(StackedRow), h |-> ScanRows,
         pixels |-> Stacked(StackedRow, ScanRows)]}
  \cup {[w |-> Len(SharedRow), h |-> 1, pixels |-> SharedRow]}

\* the number of rows of the tall grid: its candidates ask for more
\* regions than the table holds
TallRows == 86

TallGrids ==
  {[w |-> Len(StackedRow), h |-> TallRows,
    pixels |-> Stacked(StackedRow, TallRows)]}

\* ---------------------------------------------------------------------
\* State
\* ---------------------------------------------------------------------
\* quirc_resize and load_png are called with w and h in -1..MaxDim
MaxDim == 2

\* the allocator hands out the addresses 1..NumAddresses
NumAddresses == 4

\* the calls of quirc_resize and load_png in one run
MaxResizes == 3

\* the grey levels of the decoded pictures
PngLevels == {7, 9}

Addresses == 1..NumAddresses

\* a build may give a pipe up to MaxExtraCapacity words more than the
\* capacity its declaration asks for
MaxExtraCapacity == 8

Capacities == PipeCapacity..(PipeCapacity + MaxExtraCapacity)

\* kMaxBytes of the transfer test, scaled down
TotalBytes == 2

\* the values of a char the transfer test distinguishes
CharLevels == {0, 1}

Buffers == [1..TotalBytes -> CharLevels]

\* the side of the grids of the end-to-end runs
DetectSize == 21

\* the side of a finder pattern: the five runs of its middle rows
PatternSize == check[1] + check[2] + check[3] + check[4] + check[5]

\* the ring of the pattern a cell at (dx, dy) from its corner lies in:
\* 0 on the border, 1 inside it, 2 and more in the centre
PatternRing(dx, dy) ==
  LET m(a, b) == IF a < b THEN a ELSE b
  IN  m(m(dx, PatternSize - 1 - dx), m(dy, PatternSize - 1 - dy))

\* a grey image with one finder pattern, black on white, its corner at
\* (ox, oy)
PatternImage(ox, oy) ==
  [p \in 1..(DetectSize * DetectSize) |->
     LET dx == ((p - 1) % DetectSize) - ox
         dy == ((p - 1) \div DetectSize) - oy
     IN  IF /\ dx \in 0..(PatternSize - 1)
            /\ dy \in 0..(PatternSize - 1)
            /\ PatternRing(dx, dy) # 1
         THEN 0 ELSE UINT8_MAX]

\* the corners the pattern is placed at
PatternOffsets == {<<0, 0>>, <<7, 7>>, <<2, 9>>, <<13, 5>>}

DetectImages == {PatternImage(o[1], o[2]) : o \in PatternOffsets}

VARIABLES
  image,       \* image_mem: the grey image, row-major
  pc,          \* position in the thresholder/binarizer: loaded, thresholded, binarized
  threshold,   \* the threshold computed by otsu or handed to pixels_setup
  otsu_run,    \* the locals of otsu after each iteration of its threshold loop
  pixels_mem,  \* pixels_mem: the binarized grid written by pixels_setup
  w,           \* template parameter w: the width of the grid
  h,           \* template parameter h: the height of the grid
  num_regions, \* numRegions / q->num_regions
  regions,     \* regions[]: index -> region entry
  call,        \* the last region_code call of a direct caller: x, y, ret, reads
  allocated,   \* the number of regions allocated since the pass began
  y,           \* the row finder_scan is called with (i of the kernel loop)
  x,           \* finder_scan: x
  last_color,  \* finder_scan: last_color
  run_length,  \* finder_scan: run_length
  run_count,   \* finder_scan: run_count
  pb,          \* finder_scan: pb[5]
  calls,       \* the test_capstone invocations so far, in order
  num_capstones, \* kNumCapstones / q->num_capstones
  q,           \* struct quirc: w, h, image, pixels, flood_fill_vars, num_flood_fill_vars
  heap,        \* the blocks malloc and calloc returned that were not freed
  resize_call, \* the calls of quirc_resize so far and the last one: n, w, h, ret
  sideband,    \* the program run: host_pipes_with_sideband_signals.cpp or host_pipes.cpp
  cap_in,      \* the words PipeIn stores
  cap_out,     \* the words PipeOut stores
  pipe_in,     \* PipeIn: the words written and not yet read, oldest first
  pipe_out,    \* PipeOut
  host_pc,     \* main: write, launch, read, report, done
  host_i,      \* main: i of the loop it is in
  passed,      \* main: passed
  kernel_pc,   \* Kernel: idle (not launched), read, write, finished
  kernel_i,    \* Kernel::operator(): i
  kernel_d,    \* Kernel::operator(): the word read from PipeIn
  reads,       \* the words main read from PipeOut, in order
  host_buffer1,   \* bi_directional_speed_test: host_buffer1
  host_buffer2,   \* bi_directional_speed_test: host_buffer2
  device_buffer1, \* bi_directional_speed_test: device_buffer1
  device_buffer2, \* bi_directional_speed_test: device_buffer2
  block_bytes,    \* ReadWriteSpeed: block_bytes
  bw_pc,          \* ReadWriteSpeed and its caller: submit, wait, verify, done
  bw_i,           \* ReadWriteSpeed: i
  pending,        \* the command groups submitted to q and not yet executed
  bw_passed,      \* bi_directional_speed_test: passed
  scans           \* the finder_scan calls in progress when rows are scanned in parallel

otsuVars == <<image, pc, threshold, otsu_run>>

regionVars == <<num_regions, regions, call, allocated>>

scanVars == <<y, x, last_color, run_length, run_count, pb, calls>>

decoderVars == <<num_capstones, q, heap, resize_call>>

pipeVars == <<sideband, cap_in, cap_out, pipe_in, pipe_out, host_pc, host_i,
              passed, kernel_pc, kernel_i, kernel_d, reads>>

bwVars == <<host_buffer1, host_buffer2, device_buffer1, device_buffer2,
            block_bytes, bw_pc, bw_i, pending, bw_passed>>

parVars == <<scans>>

vars == <<image, pc, threshold, otsu_run, pixels_mem, w, h,
          num_regions, regions, call, allocated,
          y, x, last_color, run_length, run_count, pb, calls,
          num_capstones, q, heap, resize_call,
          sideband, cap_in, cap_out, pipe_in, pipe_out, host_pc, host_i,
          passed, kernel_pc, kernel_i, kernel_d, reads,
          host_buffer1, host_buffer2, device_buffer1, device_buffer2,
          block_bytes, bw_pc, bw_i, pending, bw_passed, scans>>

\* the scanner's locals before finder_scan is entered
ScanIdle ==
  /\ y = 0
  /\ x = 0
  /\ last_color = 0
  /\ run_length = 0
  /\ run_count = 0
  /\ pb = <<0, 0, 0, 0, 0>>
  /\ calls = << >>

NoResize == [n |-> 0, w |-> 0, h |-> 0, ret |-> 0]

\* constexpr int kNumCapstones = 0; q->num_capstones = 0; the recognizer
\* as quirc_new leaves it
DecoderIdle ==
  /\ num_capstones = 0
  /\ q = ZeroQuirc
  /\ heap = EmptyHeap
  /\ resize_call = NoResize

\* main before its first write, the kernel not launched
PipesIdle ==
  /\ pipe_in = << >>
  /\ pipe_out = << >>
  /\ host_pc = "write"
  /\ host_i = 0
  /\ passed = TRUE
  /\ kernel_pc = "idle"
  /\ kernel_i = 0
  /\ kernel_d = 0
  /\ reads = << >>

\* no pipe program runs
NoPipes ==
  /\ sideband = FALSE
  /\ cap_in = PipeCapacity
  /\ cap_out = PipeCapacity
  /\ PipesIdle

\* ReadWriteSpeed entered: nothing submitted yet
TransferIdle ==
  /\ bw_pc = "submit"
  /\ bw_i = 0
  /\ pending = {}
  /\ bw_passed = TRUE

\* no transfer test runs
NoTransfer ==
  /\ host_buffer1 = << >>
  /\ host_buffer2 = << >>
  /\ device_buffer1 = << >>
  /\ device_buffer2 = << >>
  /\ block_bytes = 1
  /\ TransferIdle

\* no rows are scanned in parallel
NoParallel ==
  scans = [rows |-> << >>, num_regions |-> QUIRC_PIXEL_REGION,
           regions |-> << >>]

NoCall == [x |-> -1, y |-> -1, ret |-> -1, reads |-> {}]

\* ---------------------------------------------------------------------
\* Thresholder and binarizer: otsu followed by pixels_setup
\* ---------------------------------------------------------------------
InitOtsu ==
  /\ image \in Images
  /\ pc = "loaded"
  /\ threshold = 0
  /\ otsu_run = << >>
  /\ pixels_mem = [i \in DOMAIN image |-> 0]
  /\ w = Len(image)
  /\ h = 1
  /\ num_regions = QUIRC_PIXEL_REGION
  /\ regions = ZeroRegions
  /\ call = NoCall
  /\ allocated = 0
  /\ ScanIdle
  /\ DecoderIdle
  /\ NoPipes
  /\ NoTransfer
  /\ NoParallel

\* uint8_t threshold = otsu<kW, kH>(&image_mem[0]);
Otsu ==
  /\ pc = "loaded"
  /\ otsu_run' = OtsuRun(image)
  /\ threshold' = otsu_run'[Len(otsu_run')].threshold
  /\ pc' = "thresholded"
  /\ UNCHANGED <<image, pixels_mem, w, h, regionVars, scanVars,
                 decoderVars, pipeVars, bwVars, parVars>>

\* pixels_setup<kW, kH>(&image_mem[0], &pixels_mem[0], threshold);
PixelsSetup ==
  /\ pc = "thresholded"
  /\ pixels_mem' = pixels_setup(image, threshold)
  /\ pc' = "binarized"
  /\ UNCHANGED <<image, threshold, otsu_run, w, h, regionVars, scanVars,
                 decoderVars, pipeVars, bwVars, parVars>>

\* pixels_setup called with a threshold of the caller's choice
PixelsSetupWith(t) ==
  /\ pc = "loaded"
  /\ threshold' = t
  /\ pixels_mem' = pixels_setup(image, t)
  /\ pc' = "binarized"
  /\ UNCHANGED <<image, otsu_run, w, h, regionVars, scanVars,
                 decoderVars, pipeVars, bwVars, parVars>>

NextOtsu ==
  \/ Otsu
  \/ PixelsSetup
  \/ \E t \in ThresholdInputs : PixelsSetupWith(t)

SpecOtsu == InitOtsu /\ [][NextOtsu]_vars

\* ---------------------------------------------------------------------
\* Region resolver called directly on a grid
\* ---------------------------------------------------------------------
\* the recognizer after memset(decoder, 0, ...) and the start of a pass
\* (num_regions = QUIRC_PIXEL_REGION), holding one of the grids
InitRegion ==
  /\ pixels_mem \in RegionGrids
  /\ w = 2
  /\ h = 2
  /\ num_regions = QUIRC_PIXEL_REGION
  /\ regions = ZeroRegions
  /\ call = NoCall
  /\ allocated = 0
  /\ ScanIdle
  /\ DecoderIdle
  /\ NoPipes
  /\ NoTransfer
  /\ NoParallel
  /\ image = << >>
  /\ pc = "regions"
  /\ threshold = 0
  /\ otsu_run = << >>

InBounds(px, py) == px >= 0 /\ py >= 0 /\ px < w /\ py < h

BlackAt(px, py) == InBounds(px, py) /\ PixelAt(w, pixels_mem, px, py) = QUIRC_PIXEL_BLACK

\* the first BLACK pixel of the grid in row-major order
FirstBlack(px, py) ==
  /\ BlackAt(px, py)
  /\ \A qx \in 0..(w - 1), qy \in 0..(h - 1) :
       BlackAt(qx, qy) => qy * w + qx >= py * w + px

\* region_code<w, h>(pixels, &num_regions, regions, px, py)
RegionCode(px, py) ==
  /\ pc = "regions"
  /\ (BlackAt(px, py) /\ allocated >= VariedAllocs /\ ~RegionFull(num_regions))
       => FirstBlack(px, py)
  /\ \E r \in {region_code(w, h, pixels_mem, num_regions, regions, px, py)} :
       /\ num_regions' = r.num_regions
       /\ regions' = r.regions
       /\ pixels_mem' = r.pixels
       /\ call' = [x |-> px, y |-> py, ret |-> r.ret,
                   reads |-> region_code_reads(w, h, px, py)]
       /\ allocated' = IF BlackAt(px, py) /\ r.ret >= 0
                       THEN allocated + 1 ELSE allocated
  /\ UNCHANGED <<otsuVars, w, h, scanVars, decoderVars, pipeVars, bwVars, parVars>>

NextRegion ==
  \E px \in -1..w, py \in -1..h : RegionCode(px, py)

SpecRegion == InitRegion /\ [][NextRegion]_vars

\* ---------------------------------------------------------------------
\* Row scanner: the kernel's loop of finder_scan over the rows
\* ---------------------------------------------------------------------
\* int numRegions = QUIRC_PIXEL_REGION; the grid is one of ScanGrids
InitScan ==
  /\ \E g \in ScanGrids : w = g.w /\ h = g.h /\ pixels_mem = g.pixels
  /\ num_regions = QUIRC_PIXEL_REGION
  /\ regions = ZeroRegions
  /\ call = NoCall
  /\ allocated = 0
  /\ ScanIdle
  /\ DecoderIdle
  /\ NoPipes
  /\ NoTransfer
  /\ NoParallel
  /\ image = << >>
  /\ pc = "rows"
  /\ threshold = 0
  /\ otsu_run = << >>

\* finder_scan entered for row y: the locals and memset(pb, 0, sizeof(pb))
FinderScanBegin ==
  /\ pc = "rows"
  /\ y < h
  /\ pc' = "columns"
  /\ x' = 0
  /\ last_color' = 0
  /\ run_length' = 0
  /\ run_count' = 0
  /\ pb' = <<0, 0, 0, 0, 0>>
  /\ UNCHANGED <<image, threshold, otsu_run, pixels_mem, w, h, regionVars,
                 y, calls, decoderVars, pipeVars, bwVars, parVars>>

\* the new regions of one test_capstone call
Probed(t) == t.num_regions - num_regions

\* one iteration of for (x = 0; x < w; x++)
FinderScanColumn ==
  /\ pc = "columns"
  /\ x < w
  /\ \E color \in {ScanColor(PixelAt(w, pixels_mem, x, y))} :
     \E edge \in {x # 0 /\ color # last_color} :
     \E window \in {IF edge THEN ScanShift(pb, run_length) ELSE pb} :
     \E runs \in {IF edge THEN run_count + 1 ELSE run_count} :
       /\ pb' = window
       /\ run_count' = runs
       /\ run_length' = (IF edge THEN 0 ELSE run_length) + 1
       /\ last_color' = color
       /\ IF edge /\ color = 0 /\ runs >= 5 /\ ScanRatioOk(window)
          THEN \E t \in {test_capstone(w, h, pixels_mem, num_regions, regions,
                                       x, y, window)} :
                 /\ num_regions' = t.num_regions
                 /\ regions' = t.regions
                 /\ pixels_mem' = t.pixels
                 /\ allocated' = allocated + Probed(t)
                 /\ calls' = Append(calls,
                      [x |-> x, y |-> y, pb |-> window,
                       ring_right |-> t.ring_right, stone |-> t.stone,
                       ring_left |-> t.ring_left])
          ELSE UNCHANGED <<num_regions, regions, allocated, calls, pixels_mem>>
  /\ x' = x + 1
  /\ UNCHANGED <<otsuVars, w, h, call, y, decoderVars, pipeVars, bwVars, parVars>>

\* finder_scan returns and the kernel loop moves to the next row
FinderScanEnd ==
  /\ pc = "columns"
  /\ x = w
  /\ pc' = "rows"
  /\ y' = y + 1
  /\ UNCHANGED <<image, threshold, otsu_run, pixels_mem, w, h, regionVars,
                 x, last_color, run_length, run_count, pb, calls,
                 decoderVars, pipeVars, bwVars, parVars>>

NextScan == FinderScanBegin \/ FinderScanColumn \/ FinderScanEnd

SpecScan == InitScan /\ [][NextScan]_vars

\* the pass started with num_regions at QUIRC_PIXEL_BLACK
InitScanTallFromBlack ==
  /\ \E g \in ScanGrids \cup TallGrids :
       w = g.w /\ h = g.h /\ pixels_mem = g.pixels
  /\ num_regions = QUIRC_PIXEL_BLACK
  /\ regions = ZeroRegions
  /\ call = NoCall
  /\ allocated = 0
  /\ ScanIdle
  /\ image = << >>
  /\ pc = "rows"
  /\ threshold = 0
  /\ otsu_run = << >>
  /\ DecoderIdle
  /\ NoPipes
  /\ NoTransfer
  /\ NoParallel

\* int numRegions = QUIRC_PIXEL_REGION; the grid is one of ScanGrids or
\* the tall grid
InitScanTall ==
  /\ \E g \in ScanGrids \cup TallGrids :
       w = g.w /\ h = g.h /\ pixels_mem = g.pixels
  /\ num_regions = QUIRC_PIXEL_REGION
  /\ regions = ZeroRegions
  /\ call = NoCall
  /\ allocated = 0
  /\ ScanIdle
  /\ image = << >>
  /\ pc = "rows"
  /\ threshold = 0
  /\ otsu_run = << >>
  /\ DecoderIdle
  /\ NoPipes
  /\ NoTransfer
  /\ NoParallel

\* the kernel's loop on grids that fill the region table
SpecScanTall == InitScanTall /\ [][NextScan]_vars

\* ---------------------------------------------------------------------
\* Rows scanned in parallel: one finder_scan call per row, all entered,
\* their steps interleaved, each region_code call made in one step on the
\* table scans.num_regions, scans.regions that the calls share. The
\* sequential pass of the kernel runs first on num_regions, regions.
\* ---------------------------------------------------------------------
InitParallel ==
  /\ \E g \in ParGrids : w = g.w /\ h = g.h /\ pixels_mem = g.pixels
  /\ num_regions = QUIRC_PIXEL_REGION
  /\ regions = ZeroRegions
  /\ call = NoCall
  /\ allocated = 0
  /\ ScanIdle
  /\ DecoderIdle
  /\ NoPipes
  /\ NoTransfer
  /\ scans = [rows |-> [r \in 1..h |-> RowEntry],
              num_regions |-> QUIRC_PIXEL_REGION,
              regions |-> ZeroRegions]
  /\ image = << >>
  /\ pc = "rows"
  /\ threshold = 0
  /\ otsu_run = << >>

\* the sequential pass has scanned every row
SequentialDone == pc = "rows" /\ y = h

\* one iteration of for (x = 0; x < w; x++) of the call scanning row
\* r - 1, up to the call of test_capstone when the candidate passes
ParColumn(r) ==
  /\ SequentialDone
  /\ scans.rows[r].stage = 0
  /\ scans.rows[r].x < w
  /\ \E s \in {scans.rows[r]} :
     \E color \in {ScanColor(PixelAt(w, pixels_mem, s.x, r - 1))} :
     \E edge \in {s.x # 0 /\ color # s.last_color} :
     \E window \in {IF edge THEN ScanShift(s.pb, s.run_length) ELSE s.pb} :
     \E runs \in {IF edge THEN s.run_count + 1 ELSE s.run_count} :
       scans' = [scans EXCEPT !.rows[r] =
         IF edge /\ color = 0 /\ runs >= 5 /\ ScanRatioOk(window)
         THEN [s EXCEPT !.pb = window, !.run_count = runs,
                        !.run_length = 0, !.stage = 1]
         ELSE [s EXCEPT !.pb = window, !.run_count = runs,
                        !.run_length = (IF edge THEN 0 ELSE s.run_length) + 1,
                        !.last_color = color, !.x = s.x + 1]]
  /\ UNCHANGED <<otsuVars, pixels_mem, w, h, regionVars, scanVars,
                 decoderVars, pipeVars, bwVars>>

\* one region_code call of test_capstone for row r - 1, made in one
\* step; after the third the loop body ends: run_length++, last_color =
\* color, x++
ParProbe(r) ==
  /\ SequentialDone
  /\ scans.rows[r].stage \in 1..3
  /\ \E s \in {scans.rows[r]} :
     \E t \in {region_code(w, h, pixels_mem, scans.num_regions,
                           scans.regions,
                           ProbeAt(s.stage, s.x, s.pb), r - 1)} :
       /\ scans' = [rows |-> [scans.rows EXCEPT ![r] =
                      IF s.stage < 3
                      THEN [s EXCEPT !.stage = s.stage + 1]
                      ELSE [s EXCEPT !.stage = 0,
                             !.run_length = s.run_length + 1,
                             !.last_color =
                               ScanColor(PixelAt(w, pixels_mem, s.x, r - 1)),
                             !.x = s.x + 1]],
                    num_regions |-> t.num_regions,
                    regions |-> t.regions]
       /\ pixels_mem' = t.pixels
  /\ UNCHANGED <<otsuVars, w, h, regionVars, scanVars,
                 decoderVars, pipeVars, bwVars>>

NextParallel ==
  \/ NextScan
  \/ \E r \in 1..h : ParColumn(r)
  \/ \E r \in 1..h : ParProbe(r)

SpecParallel == InitParallel /\ [][NextParallel]_vars

\* ---------------------------------------------------------------------
\* The identifier kernel end to end: otsu, pixels_setup, then finder_scan
\* on every row
\* ---------------------------------------------------------------------
\* image_mem[i] = image_ptr[i]; pixels_mem[i] = 0;
\* int numRegions = QUIRC_PIXEL_REGION; constexpr int kNumCapstones = 0;
InitDetect ==
  /\ image \in DetectImages
  /\ pc = "loaded"
  /\ threshold = 0
  /\ otsu_run = << >>
  /\ pixels_mem = [i \in DOMAIN image |-> 0]
  /\ w = DetectSize
  /\ h = DetectSize
  /\ num_regions = QUIRC_PIXEL_REGION
  /\ regions = ZeroRegions
  /\ call = NoCall
  /\ allocated = 0
  /\ ScanIdle
  /\ DecoderIdle
  /\ NoPipes
  /\ NoTransfer
  /\ NoParallel

\* for (int i = 0; ...: the kernel enters its loop over the rows
KernelLoop ==
  /\ pc = "binarized"
  /\ otsu_run # << >>
  /\ pc' = "rows"
  /\ y' = 0
  /\ UNCHANGED <<image, threshold, otsu_run, pixels_mem, w, h, regionVars,
                 x, last_color, run_length, run_count, pb, calls,
                 decoderVars, pipeVars, bwVars, parVars>>

NextDetect ==
  \/ Otsu
  \/ PixelsSetup
  \/ KernelLoop
  \/ FinderScanBegin
  \/ FinderScanColumn
  \/ FinderScanEnd

SpecDetect == InitDetect /\ [][NextDetect]_vars

\* ---------------------------------------------------------------------
\* The recognizer's storage: quirc_resize and load_png on a new recognizer
\* ---------------------------------------------------------------------
\* struct quirc *decoder = malloc(sizeof(*decoder));
\* memset(decoder, 0, sizeof(*decoder));
InitResize ==
  /\ image = << >>
  /\ pc = "storage"
  /\ threshold = 0
  /\ otsu_run = << >>
  /\ pixels_mem = << >>
  /\ w = 0
  /\ h = 0
  /\ num_regions = 0
  /\ regions = ZeroRegions
  /\ call = NoCall
  /\ allocated = 0
  /\ ScanIdle
  /\ DecoderIdle
  /\ NoPipes
  /\ NoTransfer
  /\ NoParallel

\* the addresses outside the live blocks and the blocks the call
\* allocated before
Unused(taken) == Addresses \ (Live(heap) \cup taken)

\* what an allocation may return: NULL or an unused address. Addresses are
\* only compared with each other, so one unused address stands for all.
Returned(taken) ==
  {NULL} \cup {a \in Unused(taken) : \A b \in Unused(taken) : a <= b}

\* image = calloc(w, h), reached when neither w nor h is negative
ReturnedImage(nw, nh) ==
  IF nw < 0 \/ nh < 0 THEN {NULL} ELSE Returned({})

\* pixels = calloc(newdim, sizeof(quirc_pixel_t)), reached when the pixels
\* have a buffer of their own and the image was allocated
ReturnedPixels(ip) ==
  IF QUIRC_PIXEL_ALIAS_IMAGE = 0 /\ ip # NULL
  THEN Returned({ip}) ELSE {NULL}

\* vars = malloc(vars_byte_size), reached when the buffers before it were
\* allocated
ReturnedVars(ip, pp) ==
  IF ip # NULL /\ (QUIRC_PIXEL_ALIAS_IMAGE # 0 \/ pp # NULL)
  THEN Returned({ip, pp}) ELSE {NULL}

\* quirc_resize(q, nw, nh) called by the host
QuircResize(nw, nh) ==
  /\ pc = "storage"
  /\ resize_call.n < MaxResizes
  /\ \E ip \in ReturnedImage(nw, nh) :
     \E pp \in ReturnedPixels(ip) :
     \E vp \in ReturnedVars(ip, pp) :
     \E r \in {quirc_resize(q, heap, nw, nh, ip, pp, vp)} :
       /\ q' = r.q
       /\ heap' = r.heap
       /\ resize_call' = [n |-> resize_call.n + 1, w |-> nw, h |-> nh,
                          ret |-> r.ret]
  /\ UNCHANGED <<otsuVars, pixels_mem, w, h, regionVars, scanVars,
                 num_capstones, pipeVars, bwVars, parVars>>

\* load_png(q, filename) on a picture of width x height pixels of level v,
\* from quirc_resize(q, width, height) on
LoadPng(width, height, v) ==
  /\ pc = "storage"
  /\ resize_call.n < MaxResizes
  /\ \E ip \in ReturnedImage(width, height) :
     \E pp \in ReturnedPixels(ip) :
     \E vp \in ReturnedVars(ip, pp) :
     \E r \in {quirc_resize(q, heap, width, height, ip, pp, vp)} :
       /\ q' = r.q
       /\ resize_call' = [n |-> resize_call.n + 1, w |-> width,
                          h |-> height, ret |-> r.ret]
       /\ IF r.ret < 0
          THEN /\ heap' = r.heap
               /\ UNCHANGED <<num_regions, num_capstones>>
          ELSE /\ heap' = ReadRows(r.heap, r.q.image, v)
               /\ num_regions' = QUIRC_PIXEL_REGION
               /\ num_capstones' = 0
  /\ UNCHANGED <<otsuVars, pixels_mem, w, h, regions, call, allocated,
                 scanVars, pipeVars, bwVars, parVars>>

NextResize ==
  \/ \E nw \in -1..MaxDim, nh \in -1..MaxDim : QuircResize(nw, nh)
  \/ \E width \in 0..MaxDim, height \in 0..MaxDim, v \in PngLevels :
       LoadPng(width, height, v)

SpecResize == InitResize /\ [][NextResize]_vars

\* ---------------------------------------------------------------------
\* The host pipe programs: main and the kernel it launches
\* ---------------------------------------------------------------------
InitPipes ==
  /\ sideband \in BOOLEAN
  /\ cap_in \in Capacities
  /\ cap_out \in Capacities
  /\ PipesIdle
  /\ image = << >>
  /\ pc = "pipes"
  /\ threshold = 0
  /\ otsu_run = << >>
  /\ pixels_mem = << >>
  /\ w = 0
  /\ h = 0
  /\ num_regions = 0
  /\ regions = ZeroRegions
  /\ call = NoCall
  /\ allocated = 0
  /\ ScanIdle
  /\ DecoderIdle
  /\ NoTransfer
  /\ NoParallel

qrcodeVars ==
  <<otsuVars, pixels_mem, w, h, regionVars, scanVars, decoderVars>>

\* PipeIn::write(q, i) in for (int i = 0; i < count; i++); the write
\* blocks while PipeIn is full
HostWrite ==
  /\ host_pc = "write"
  /\ host_i < count
  /\ ~PipeFull(pipe_in, cap_in)
  /\ pipe_in' = PipeWrite(pipe_in, HostBeat(sideband, host_i))
  /\ host_i' = host_i + 1
  /\ host_pc' = IF host_i + 1 < count THEN "write" ELSE "launch"
  /\ UNCHANGED <<sideband, cap_in, cap_out, pipe_out, passed, kernel_pc,
                 kernel_i, kernel_d, reads, qrcodeVars, bwVars, parVars>>

\* q.single_task<KernelCompute>(Kernel{count}); bool passed = true;
HostLaunch ==
  /\ host_pc = "launch"
  /\ kernel_pc' = IF 0 < count THEN "read" ELSE "finished"
  /\ kernel_i' = 0
  /\ passed' = TRUE
  /\ host_i' = 0
  /\ host_pc' = IF 0 < count THEN "read" ELSE "report"
  /\ UNCHANGED <<sideband, cap_in, cap_out, pipe_in, pipe_out, kernel_d,
                 reads, qrcodeVars, bwVars, parVars>>

\* auto d = PipeIn::read(); the read blocks while PipeIn is empty
KernelRead ==
  /\ kernel_pc = "read"
  /\ ~PipeEmpty(pipe_in)
  /\ kernel_d' = PipeFront(pipe_in)
  /\ pipe_in' = PipeRest(pipe_in)
  /\ kernel_pc' = "write"
  /\ UNCHANGED <<sideband, cap_in, cap_out, pipe_out, host_pc, host_i,
                 passed, kernel_i, reads, qrcodeVars, bwVars, parVars>>

\* auto r = SomethingComplicated(d); PipeOut::write(r); i++
KernelWrite ==
  /\ kernel_pc = "write"
  /\ ~PipeFull(pipe_out, cap_out)
  /\ pipe_out' = PipeWrite(pipe_out, KernelBeat(sideband, kernel_d))
  /\ kernel_i' = kernel_i + 1
  /\ kernel_pc' = IF kernel_i + 1 < count THEN "read" ELSE "finished"
  /\ UNCHANGED <<sideband, cap_in, cap_out, pipe_in, host_pc, host_i,
                 passed, kernel_d, reads, qrcodeVars, bwVars, parVars>>

\* int val_device = PipeOut::read(q); int val_host = SomethingComplicated(i);
\* passed &= (val_device == val_host);
HostRead ==
  /\ host_pc = "read"
  /\ host_i < count
  /\ ~PipeEmpty(pipe_out)
  /\ reads' = Append(reads, PipeFront(pipe_out))
  /\ passed' = HostVerify(sideband, passed, PipeFront(pipe_out), host_i)
  /\ pipe_out' = PipeRest(pipe_out)
  /\ host_i' = host_i + 1
  /\ host_pc' = IF host_i + 1 < count THEN "read" ELSE "report"
  /\ UNCHANGED <<sideband, cap_in, cap_out, pipe_in, kernel_pc, kernel_i,
                 kernel_d, qrcodeVars, bwVars, parVars>>

\* std::cout << (passed ? "PASSED" : "FAILED"); return passed;
HostReport ==
  /\ host_pc = "report"
  /\ host_pc' = "done"
  /\ UNCHANGED <<sideband, cap_in, cap_out, pipe_in, pipe_out, host_i,
                 passed, kernel_pc, kernel_i, kernel_d, reads, qrcodeVars, bwVars, parVars>>

NextPipes ==
  \/ HostWrite
  \/ HostLaunch
  \/ KernelRead
  \/ KernelWrite
  \/ HostRead
  \/ HostReport

SpecPipes == InitPipes /\ [][NextPipes]_vars

\* ---------------------------------------------------------------------
\* The transfer test: bi_directional_speed_test and ReadWriteSpeed
\* ---------------------------------------------------------------------
\* host_buffer1[i] = rand(); the device buffers and host_buffer2 hold
\* whatever their storage held; ReadWriteSpeed is entered with a block
\* size of 1..total_bytes
InitTransfer ==
  /\ host_buffer1 \in Buffers
  /\ host_buffer2 \in Buffers
  /\ device_buffer1 \in Buffers
  /\ device_buffer2 \in Buffers
  /\ block_bytes \in 1..TotalBytes
  /\ TransferIdle
  /\ image = << >>
  /\ pc = "transfer"
  /\ threshold = 0
  /\ otsu_run = << >>
  /\ pixels_mem = << >>
  /\ w = 0
  /\ h = 0
  /\ num_regions = 0
  /\ regions = ZeroRegions
  /\ call = NoCall
  /\ allocated = 0
  /\ ScanIdle
  /\ DecoderIdle
  /\ NoPipes
  /\ NoParallel

\* one iteration of the loop of ReadWriteSpeed: the two q.submit calls
SubmitTransfers ==
  /\ bw_pc = "submit"
  /\ bw_i < NumTransfers(TotalBytes, block_bytes)
  /\ pending' = pending \cup {<<"write", bw_i>>, <<"read", bw_i>>}
  /\ bw_i' = bw_i + 1
  /\ bw_pc' = IF bw_i + 1 < NumTransfers(TotalBytes, block_bytes)
              THEN "submit" ELSE "wait"
  /\ UNCHANGED <<host_buffer1, host_buffer2, device_buffer1, device_buffer2,
                 block_bytes, bw_passed, qrcodeVars, pipeVars, parVars>>

\* h.copy(&host_buffer1[buf_offset], mem1): the write transfers of one
\* buffer run in the order of their submission
CopyToDevice(i) ==
  /\ <<"write", i>> \in pending
  /\ \A j \in 0..(i - 1) : <<"write", j>> \notin pending
  /\ device_buffer1' = CopyBlock(device_buffer1, host_buffer1, i, block_bytes)
  /\ pending' = pending \ {<<"write", i>>}
  /\ UNCHANGED <<host_buffer1, host_buffer2, device_buffer2, block_bytes,
                 bw_pc, bw_i, bw_passed, qrcodeVars, pipeVars, parVars>>

\* h.copy(mem2, &host_buffer2[buf_offset])
CopyFromDevice(i) ==
  /\ <<"read", i>> \in pending
  /\ host_buffer2' =
       CopyBlock(host_buffer2, ReadSource(device_buffer1, device_buffer2),
                 i, block_bytes)
  /\ pending' = pending \ {<<"read", i>>}
  /\ UNCHANGED <<host_buffer1, device_buffer1, device_buffer2, block_bytes,
                 bw_pc, bw_i, bw_passed, qrcodeVars, pipeVars, parVars>>

\* q.wait(); ... return 0;
WaitTransfers ==
  /\ bw_pc = "wait"
  /\ pending = {}
  /\ bw_pc' = "verify"
  /\ UNCHANGED <<host_buffer1, host_buffer2, device_buffer1, device_buffer2,
                 block_bytes, bw_i, pending, bw_passed, qrcodeVars, pipeVars,
                 parVars>>

\* bool passed = true; passed &= host_buffer1[i] == host_buffer2[i];
\* return passed;
VerifyTransfers ==
  /\ bw_pc = "verify"
  /\ bw_passed' = BuffersEqual(host_buffer1, host_buffer2)
  /\ bw_pc' = "done"
  /\ UNCHANGED <<host_buffer1, host_buffer2, device_buffer1, device_buffer2,
                 block_bytes, bw_i, pending, qrcodeVars, pipeVars, parVars>>

NextTransfer ==
  \/ SubmitTransfers
  \/ \E i \in 0..(TotalBytes - 1) : CopyToDevice(i)
  \/ \E i \in 0..(TotalBytes - 1) : CopyFromDevice(i)
  \/ WaitTransfers
  \/ VerifyTransfers

SpecTransfer == InitTransfer /\ [][NextTransfer]_vars

\* ---------------------------------------------------------------------
\* Exact arithmetic on an image, for stating the thresholder's properties
\* ---------------------------------------------------------------------
Levels(img) == {img[p] : p \in DOMAIN img}

RECURSIVE SumUpTo(_, _, _)
SumUpTo(img, i, p) ==
  IF p > Len(img) THEN 0
  ELSE (IF img[p] <= i THEN img[p] ELSE 0) + SumUpTo(img, i, p + 1)

\* background count, foreground count and background weighted sum at
\* candidate i
ExactQ1(img, i) == Cardinality({p \in DOMAIN img : img[p] <= i})

ExactQ2(img, i) == Len(img) - ExactQ1(img, i)

ExactS1(img, i) == SumUpTo(img, i, 1)

ValidCandidates(img) ==
  {i \in 0..UINT8_MAX : ExactQ1(img, i) > 0 /\ ExactQ2(img, i) > 0}

\* (m1 - m2)^2 * q1 * q2 = ExactNum / ExactDen
ExactNum(img, i) ==
  LET d == ExactS1(img, i) * ExactQ2(img, i)
           - (ExactS1(img, UINT8_MAX) - ExactS1(img, i)) * ExactQ1(img, i)
  IN d * d

ExactDen(img, i) == ExactQ1(img, i) * ExactQ2(img, i)

\* a * b as a pair of 16-bit-aligned limbs, for a < 2^31 and b < 2^15
Wide(a, b) ==
  LET lo == (a % 65536) * b
  IN <<(a \div 65536) * b + lo \div 65536, lo % 65536>>

WideGeq(a, b) == a[1] > b[1] \/ (a[1] = b[1] /\ a[2] >= b[2])

\* the exact variance at candidate i is at least the one at candidate j
ExactGeq(img, i, j) ==
  WideGeq(Wide(ExactNum(img, i), ExactDen(img, j)),
          Wide(ExactNum(img, j), ExactDen(img, i)))

\* the exact variance at i is maximal over the valid candidates; the
\* variance is constant between occupied levels, so the occupied valid
\* levels stand for all of them
ExactMaximal(img, i) ==
  \A j \in ValidCandidates(img) \cap Levels(img) : ExactGeq(img, i, j)

\* the iterations of the threshold loop that computed a variance
Evaluated == {k \in DOMAIN otsu_run : otsu_run[k].evaluated}

\* the iterations whose computed variance is maximal
ComputedMaximal ==
  {k \in Evaluated :
     \A k2 \in Evaluated : F32Geq(otsu_run[k].variance, otsu_run[k2].variance)}

OtsuReturned == otsu_run # << >>

\* ---------------------------------------------------------------------
\* C1: pixels_setup writes BLACK exactly at the pixels below the
\* threshold and WHITE at every other pixel, and nothing else.
\* ---------------------------------------------------------------------
C1_Binarized ==
  pc = "binarized" =>
    /\ DOMAIN pixels_mem = DOMAIN image
    /\ \A p \in DOMAIN image :
         /\ pixels_mem[p] \in {QUIRC_PIXEL_BLACK, QUIRC_PIXEL_WHITE}
         /\ (pixels_mem[p] = QUIRC_PIXEL_BLACK) <=> (image[p] < threshold)

\* a grid with both labels, one pixel sitting exactly on the threshold
C1_Witness ==
  /\ pc = "binarized"
  /\ \E p1, p2, p3 \in DOMAIN image :
       /\ pixels_mem[p1] = QUIRC_PIXEL_BLACK
       /\ pixels_mem[p2] = QUIRC_PIXEL_WHITE
       /\ image[p3] = threshold

\* ---------------------------------------------------------------------
\* C2 as stated: on an image with two distinct values otsu returns a valid
\* candidate whose exact between-class variance is maximal.
\* ---------------------------------------------------------------------
C2_ExactMaximal ==
  (OtsuReturned /\ Cardinality(Levels(image)) >= 2) =>
    /\ threshold \in ValidCandidates(image)
    /\ ExactMaximal(image, threshold)

\* C2 amended: on an image with two distinct values otsu returns a valid
\* candidate whose variance as computed in single precision is maximal
\* among the computed variances of the valid candidates.
C2_ComputedMaximal ==
  (OtsuReturned /\ Cardinality(Levels(image)) >= 2) =>
    /\ threshold \in ValidCandidates(image)
    /\ {otsu_run[k].i : k \in Evaluated} = ValidCandidates(image)
    /\ \E k \in ComputedMaximal : otsu_run[k].i = threshold

\* the returned candidate beats, in the computed variance, a candidate of
\* another class: the maximum is a real choice
C2_Witness ==
  /\ OtsuReturned
  /\ Cardinality(Levels(image)) >= 3
  /\ \E k \in Evaluated : k \notin ComputedMaximal
  /\ \E k \in ComputedMaximal : otsu_run[k].i = threshold

\* ---------------------------------------------------------------------
\* C3 as stated: when several valid candidates attain the maximal (exact)
\* variance, otsu returns the lowest of them.
\* ---------------------------------------------------------------------
C3_FirstOfTies ==
  OtsuReturned =>
    LET ties == {i \in ValidCandidates(image) : ExactMaximal(image, i)}
    IN Cardinality(ties) > 1 =>
         threshold \in ties /\ \A j \in ties : threshold <= j

\* C3 amended: when several valid candidates attain the maximal computed
\* variance, otsu returns the highest of them.
C3_LastOfTies ==
  OtsuReturned =>
    (Cardinality(ComputedMaximal) > 1 =>
       \E k \in ComputedMaximal :
          /\ otsu_run[k].i = threshold
          /\ \A k2 \in ComputedMaximal : otsu_run[k2].i <= threshold)

C3_Witness ==
  /\ OtsuReturned
  /\ Cardinality(ComputedMaximal) > 1
  /\ \E k \in ComputedMaximal : otsu_run[k].i < threshold

\* Ties of the exact variance are not ties of the computed one: the
\* highest candidate of maximal exact variance is not always returned.
C3_LastOfExactTies ==
  (OtsuReturned /\ Cardinality(Levels(image)) >= 2) =>
    \A j \in ValidCandidates(image) :
      ExactMaximal(image, j) => j <= threshold

\* ---------------------------------------------------------------------
\* C4: on an image of 50s and 200s in equal numbers the threshold lies
\* strictly between 50 and 200, and the binarizer then labels the 50s
\* BLACK and the 200s WHITE.
\* ---------------------------------------------------------------------
BimodalEqual(img) ==
  /\ Levels(img) = BimodalLevels
  /\ \A v \in BimodalLevels :
       2 * Cardinality({p \in DOMAIN img : img[p] = v}) = Len(img)

C4_Bimodal ==
  (OtsuReturned /\ BimodalEqual(image)) =>
    /\ 50 < threshold
    /\ threshold < 200
    /\ pc = "binarized" =>
         \A p \in DOMAIN image :
           (pixels_mem[p] = QUIRC_PIXEL_BLACK) <=> (image[p] = 50)

C4_Witness ==
  /\ OtsuReturned
  /\ BimodalEqual(image)
  /\ Len(image) = 4
  /\ pc = "binarized"

\* ---------------------------------------------------------------------
\* Claims about the region resolver (SpecRegion)
\* ---------------------------------------------------------------------
\* the regions a pass can allocate: the ids from QUIRC_PIXEL_REGION up to
\* the end of the table
RegionCapacity == QUIRC_MAX_REGIONS - QUIRC_PIXEL_REGION

\* the step is a region_code call on an in-bounds BLACK pixel
CallOnBlack == BlackAt(call'.x, call'.y)

C7_Step ==
  (CallOnBlack /\ num_regions < QUIRC_MAX_REGIONS) =>
    /\ call'.ret = num_regions
    /\ num_regions' = num_regions + 1
    /\ DOMAIN regions' = DOMAIN regions
    /\ regions'[num_regions].seed = [x |-> call'.x, y |-> call'.y]
    /\ regions'[num_regions].capstone = -1
    /\ regions'[num_regions].count = 0
    /\ \A i \in DOMAIN regions : i # num_regions => regions'[i] = regions[i]

\* C7: a region_code call on an in-bounds BLACK pixel made while
\* num_regions < QUIRC_MAX_REGIONS returns the value num_regions had before
\* the call, increments num_regions by exactly 1, sets that entry's seed to
\* (x, y), its capstone to -1 and its count to 0, and leaves every other
\* entry of the table as it was.
C7_Allocation == [][C7_Step]_vars

\* a second region was just allocated at a pixel whose x and y differ
C7_Witness ==
  /\ BlackAt(call.x, call.y)
  /\ call.x # call.y
  /\ call.ret = QUIRC_PIXEL_REGION + 1
  /\ num_regions = call.ret + 1
  /\ regions[call.ret].seed = [x |-> call.x, y |-> call.y]
  /\ regions[call.ret].capstone = -1

\* C8: after region_code has allocated a region for the BLACK pixel
\* (x, y), the grid holds the region's id at (x, y) (so that a later call
\* on the same pixel returns it without allocating again).
C8_SeedPixelLabelled ==
  (InBounds(call.x, call.y) /\ call.ret >= QUIRC_PIXEL_REGION) =>
    PixelAt(w, pixels_mem, call.x, call.y) = call.ret

\* C9 as stated: an allocation on a BLACK pixel is refused only once 254
\* regions have been allocated since the pass began.
C9_Capacity254 ==
  (BlackAt(call.x, call.y) /\ call.ret = -1) => allocated = QUIRC_MAX_REGIONS

\* C9 (amended): no more than QUIRC_MAX_REGIONS - QUIRC_PIXEL_REGION = 252
\* regions are allocated in a pass, and an allocation on a BLACK pixel is
\* refused only once that many have been allocated (every earlier one
\* succeeds; the 253rd returns -1).
C9_Capacity252 ==
  /\ allocated <= RegionCapacity
  /\ (BlackAt(call.x, call.y) /\ call.ret = -1) => allocated = RegionCapacity
  /\ (BlackAt(call.x, call.y) /\ call.ret # -1) =>
       call.ret = QUIRC_PIXEL_REGION + allocated - 1

\* the 253rd allocation was attempted and refused
C9_Witness ==
  /\ allocated = RegionCapacity
  /\ BlackAt(call.x, call.y)
  /\ call.ret = -1

C10_Step ==
  /\ num_regions' <= QUIRC_MAX_REGIONS
  /\ DOMAIN regions' \subseteq 0..(QUIRC_MAX_REGIONS - 1)
  /\ (CallOnBlack /\ num_regions >= QUIRC_MAX_REGIONS) =>
       /\ call'.ret = -1
       /\ UNCHANGED <<num_regions, regions, pixels_mem, allocated>>

\* C10: a region_code call on a BLACK pixel made while
\* num_regions >= QUIRC_MAX_REGIONS returns -1 and leaves num_regions, the
\* table and the grid unchanged; num_regions never exceeds
\* QUIRC_MAX_REGIONS and no entry at an index >= QUIRC_MAX_REGIONS is
\* ever written.
C10_Saturated == [][C10_Step]_vars

\* a call on a BLACK pixel was refused with the table full
C10_Witness ==
  /\ num_regions = QUIRC_MAX_REGIONS
  /\ BlackAt(call.x, call.y)
  /\ call.ret = -1
  /\ regions[QUIRC_MAX_REGIONS - 1].capstone = -1

\* ---------------------------------------------------------------------
\* Claims about the row scanner (SpecScan)
\* ---------------------------------------------------------------------
\* the colour of column c of row r
ColourAt(r, c) == IF pixels_mem[r * w + c + 1] # 0 THEN 1 ELSE 0

\* the colour changes at column c of row r
ChangeAt(r, c) == c > 0 /\ ColourAt(r, c) # ColourAt(r, c - 1)

\* the first column of the run that ends just before column c
RunStart(r, c) ==
  CHOOSE j \in 0..(c - 1) :
    /\ j = 0 \/ ChangeAt(r, j)
    /\ \A k \in (j + 1)..(c - 1) : ~ChangeAt(r, k)

\* the number of runs completed when column c is reached
RunsBefore(r, c) == Cardinality({k \in 1..c : ChangeAt(r, k)})

\* the lengths of the last five runs that end before column c, oldest first
WindowAt(r, c) ==
  Let(RunStart(r, c), LAMBDA s5 :
  Let(RunStart(r, s5), LAMBDA s4 :
  Let(RunStart(r, s4), LAMBDA s3 :
  Let(RunStart(r, s3), LAMBDA s2 :
  Let(RunStart(r, s2), LAMBDA s1 :
    <<s2 - s1, s3 - s2, s4 - s3, s5 - s4, c - s5>>)))))

\* the ratio test as the claim words it, on a window p (p[i + 1] is pb[i])
RatioHolds(p) ==
  LET avg == ((p[1] + p[2] + p[4] + p[5]) * 16) \div 4
      err == (avg * 3) \div 4
      chk == <<1, 1, 3, 1, 1>>
  IN  \A i \in 1..5 :
        /\ chk[i] * avg - err <= p[i] * 16
        /\ p[i] * 16 <= chk[i] * avg + err

\* the detection criterion at column c of row r, read off the grid
Criterion(r, c) ==
  /\ ChangeAt(r, c)
  /\ ColourAt(r, c) = QUIRC_PIXEL_WHITE
  /\ RunsBefore(r, c) >= 5
  /\ RatioHolds(WindowAt(r, c))

\* column c of row r has been scanned
Scanned(r, c) == r < y \/ (r = y /\ pc = "columns" /\ c < x)

InvokedAt(r, c) == \E k \in DOMAIN calls : calls[k].y = r /\ calls[k].x = c

\* C5: test_capstone has been invoked at a scanned column x of a row iff
\* x > 0, the colour at x differs from that at x - 1, the new colour is
\* WHITE, at least 5 runs have completed and every element of the window
\* of the last five runs passes the 1:1:3:1:1 ratio test; the window
\* handed over is that window.
C5_Criterion ==
  \A r \in 0..(h - 1), c \in 0..(w - 1) :
    Scanned(r, c) =>
      /\ InvokedAt(r, c) <=> Criterion(r, c)
      /\ \A k \in DOMAIN calls :
           (calls[k].y = r /\ calls[k].x = c) => calls[k].pb = WindowAt(r, c)

\* a scanned row with a column that was tested and a later WHITE edge
\* with five runs behind it that was not
C5_Witness ==
  /\ w = ScanWidth
  /\ y = h
  /\ Len(calls) = 1
  /\ \E c \in 0..(w - 1) :
       /\ c > calls[1].x
       /\ ChangeAt(0, c)
       /\ ColourAt(0, c) = QUIRC_PIXEL_WHITE
       /\ ~InvokedAt(0, c)

\* the one invocation on the synthetic row
SyntheticCall(c) == c.x = 80 /\ c.y = 0 /\ c.pb = <<10, 10, 30, 10, 10>>

\* C6: on the 90-pixel row W10 B10 W10 B30 W10 B10 W10 finder_scan
\* invokes test_capstone exactly once, at x = 80, with the window
\* [10, 10, 30, 10, 10]: nothing before column 80 is tested, and from
\* column 80 on the log holds that single invocation.
C6_Synthetic ==
  pixels_mem = SyntheticRow =>
    IF Scanned(0, 80)
    THEN Len(calls) = 1 /\ SyntheticCall(calls[1])
    ELSE calls = << >>

\* the synthetic row scanned to its end
C6_Witness ==
  /\ pixels_mem = SyntheticRow
  /\ Len(pixels_mem) = 90
  /\ y = h
  /\ pc = "rows"
  /\ Len(calls) = 1

\* ---------------------------------------------------------------------
\* Claims about the queries region_code answers without allocating
\* (SpecRegion)
\* ---------------------------------------------------------------------
\* the pixel the step's call is made on, the call being in bounds
CallPixel == PixelAt(w, pixels_mem, call'.x, call'.y)

C11_Step ==
  ~InBounds(call'.x, call'.y) =>
    /\ call'.ret = -1
    /\ call'.reads = {}
    /\ UNCHANGED <<num_regions, regions, pixels_mem, allocated>>

\* C11: a region_code call at (x, y) with x < 0, y < 0, x >= w or y >= h
\* returns -1, reads no pixel of the grid and changes neither num_regions
\* nor the region table (nor the grid).
C11_OutOfBounds == [][C11_Step]_vars

\* a call just right of the grid, on a row of the grid, was refused after
\* a region had been allocated
C11_Witness ==
  /\ call.x = w
  /\ call.y \in 0..(h - 1)
  /\ call.ret = -1
  /\ call.reads = {}
  /\ allocated >= 1

C12_Step ==
  (InBounds(call'.x, call'.y) /\ CallPixel >= QUIRC_PIXEL_REGION) =>
    /\ call'.ret = CallPixel
    /\ UNCHANGED <<num_regions, regions, pixels_mem, allocated>>

\* C12: a region_code call on an in-bounds pixel of value v >= 2 returns v
\* and changes neither num_regions, the region table nor the grid, at any
\* fill level of the table; a second call on the pixel therefore starts
\* from the same state and returns v again.
C12_Labelled == [][C12_Step]_vars

\* the pixel labelled QUIRC_PIXEL_REGION was queried with the table full
C12_Witness ==
  /\ InBounds(call.x, call.y)
  /\ PixelAt(w, pixels_mem, call.x, call.y) = QUIRC_PIXEL_REGION
  /\ call.ret = QUIRC_PIXEL_REGION
  /\ num_regions = QUIRC_MAX_REGIONS

C13_Step ==
  (InBounds(call'.x, call'.y) /\ CallPixel = QUIRC_PIXEL_WHITE) =>
    /\ call'.ret = -1
    /\ UNCHANGED <<num_regions, regions, allocated>>

\* C13: a region_code call on an in-bounds WHITE pixel returns -1 and
\* allocates nothing, whatever calls were made before it.
C13_White == [][C13_Step]_vars

\* a WHITE pixel was queried after two regions had been allocated
C13_Witness ==
  /\ InBounds(call.x, call.y)
  /\ PixelAt(w, pixels_mem, call.x, call.y) = QUIRC_PIXEL_WHITE
  /\ call.ret = -1
  /\ allocated >= 2
  /\ num_regions = QUIRC_PIXEL_REGION + allocated

\* ---------------------------------------------------------------------
\* Claims about what scanning leaves alone (SpecScan)
\* ---------------------------------------------------------------------
\* the contents of row r of the grid
RowOf(r) == [c \in 0..(w - 1) |-> pixels_mem[r * w + c + 1]]

\* the candidate columns and windows produced for row r, in order
CandidatesOf(r) ==
  LET sel == SelectSeq(calls, LAMBDA c : c.y = r)
  IN  [k \in 1..Len(sel) |-> <<sel[k].x, sel[k].pb>>]

\* rows scanned to their end that hold the same pixels produced the same
\* candidates
RowsAgree ==
  \A r1 \in 0..(h - 1), r2 \in 0..(h - 1) :
    (r1 < y /\ r2 < y /\ RowOf(r1) = RowOf(r2)) =>
      CandidatesOf(r1) = CandidatesOf(r2)

C16_Step == pixels_mem' = pixels_mem /\ RowsAgree'

\* C16: no step of finder_scan, test_capstone or region_code changes the
\* grid, and the candidate columns and windows produced for a row depend
\* on the contents of that row only: two rows of the same contents
\* produce the same candidates, whatever the region table held when each
\* was scanned.
C16_GridUntouched == [][C16_Step]_vars

\* the stacked grid scanned to its end: every row produced a candidate
\* and the three probes of each allocated regions
C16_Witness ==
  /\ h >= 2
  /\ y = h
  /\ Len(calls) = h
  /\ num_regions = QUIRC_PIXEL_REGION + 3 * h
  /\ CandidatesOf(0) = CandidatesOf(h - 1)
  /\ calls[1].ring_right # calls[h].ring_right

\* ---------------------------------------------------------------------
\* Claims about uniform images (SpecOtsu)
\* ---------------------------------------------------------------------
Uniform == \A k \in DOMAIN image : image[k] = image[1]

\* C17: on an image all of whose pixels hold one grey level v, otsu
\* leaves its loop at i = v with the foreground empty, no candidate
\* having been evaluated, and returns 0; pixels_setup with that
\* threshold makes every pixel WHITE.
C17_Uniform ==
  (Uniform /\ otsu_run # << >>) =>
    /\ threshold = 0
    /\ Len(otsu_run) = image[1] + 1
    /\ otsu_run[Len(otsu_run)].i = image[1]
    /\ OtsuBroke(otsu_run[Len(otsu_run)])
    /\ \A k \in DOMAIN otsu_run : ~otsu_run[k].evaluated
    /\ pc = "binarized" =>
         \A k \in DOMAIN pixels_mem : pixels_mem[k] = QUIRC_PIXEL_WHITE

\* a uniform image of the brightest level, thresholded and binarized
C17_Witness ==
  /\ Uniform
  /\ image[1] = UINT8_MAX
  /\ otsu_run # << >>
  /\ pc = "binarized"
  /\ threshold = 0
  /\ \A k \in DOMAIN pixels_mem : pixels_mem[k] = QUIRC_PIXEL_WHITE

\* ---------------------------------------------------------------------
\* Claims about the kernel end to end (SpecDetect)
\* ---------------------------------------------------------------------
\* every row of the grid was scanned
ScanDone == pc = "rows" /\ y = h

\* the regions allocated so far
Allocated == QUIRC_PIXEL_REGION..(num_regions - 1)

\* ratio = stone_reg->count * 100 / ring_reg->count within 10..70
CapstoneRatioOk(ring, stone) ==
  /\ regions[ring].count # 0
  /\ (regions[stone].count * 100) \div regions[ring].count \in 10..70

\* C14: once otsu, pixels_setup and finder_scan on every row have run on
\* a 21 x 21 grid that holds a single finder pattern, exactly one
\* capstone is recorded, and the stone and ring regions that refer to it
\* have stone.count * 100 / ring.count within 10..70.
C14_OneCapstone ==
  (ScanDone /\ image \in DetectImages) =>
    /\ num_capstones = 1
    /\ \E ring \in Allocated, stone \in Allocated :
         /\ ring # stone
         /\ regions[ring].capstone = 0
         /\ regions[stone].capstone = 0
         /\ CapstoneRatioOk(ring, stone)

\* ---------------------------------------------------------------------
\* Claims about the recognizer's storage (SpecResize)
\* ---------------------------------------------------------------------
\* the step is a call of quirc_resize
ResizeCalled == resize_call'.n # resize_call.n

C18_Step ==
  ResizeCalled =>
    /\ resize_call'.ret = -1 => q' = q
    /\ q' # q => resize_call'.ret = 0
    /\ resize_call'.ret \in {-1, 0}

\* C18: a call of quirc_resize that returns -1 leaves q->w, q->h,
\* q->image, q->pixels, q->flood_fill_vars and q->num_flood_fill_vars as
\* they were before the call; they change only in a call that returns 0.
C18_FailureAtomic == [][C18_Step]_vars

\* a call failed at the allocation of the work area, after the new image
\* was allocated and filled, on a recognizer that had been resized to
\* another size before, and q holds what the earlier call left
C18_Witness ==
  /\ resize_call.ret = -1
  /\ resize_call.n >= 2
  /\ resize_call.w > 0
  /\ resize_call.h > 0
  /\ q.image # NULL
  /\ q.w # resize_call.w
  /\ Live(heap) = {q.image, q.flood_fill_vars}

\* ---------------------------------------------------------------------
\* Claims about the host pipe programs (SpecPipes)
\* ---------------------------------------------------------------------
\* the words main has written to PipeIn so far
HostWritten == IF host_pc = "write" THEN host_i ELSE count

\* the words the kernel holds between its read and its write
KernelHolds == IF kernel_pc = "write" THEN 1 ELSE 0

\* C19: the i-th word main reads from PipeOut carries
\* SomethingComplicated(i), for every i read so far; every word written
\* to PipeIn is in PipeIn, in the kernel, in PipeOut or has been read,
\* none lost and none twice; and the program that reaches its report has
\* read count words and reports PASSED.
C19_InOrder ==
  /\ \A k \in DOMAIN reads :
       BeatData(sideband, reads[k]) = SomethingComplicated(k - 1)
  /\ Len(pipe_in) + KernelHolds + Len(pipe_out) + Len(reads) = HostWritten
  /\ passed
  /\ host_pc \in {"report", "done"} => Len(reads) = count

\* the program with sideband signals has reported PASSED after count reads
C19_Witness ==
  /\ host_pc = "done"
  /\ sideband
  /\ passed
  /\ Len(reads) = count
  /\ reads[count].data = SomethingComplicated(count - 1)
  /\ reads[count].eop
  /\ kernel_pc = "finished"

\* main waits in a write to PipeIn that no step can complete
HostStuck ==
  /\ host_pc = "write"
  /\ PipeFull(pipe_in, cap_in)
  /\ kernel_pc = "idle"

\* C20: with PipeIn and PipeOut storing 8 words, the program never
\* deadlocks: until main is done, main or the kernel can take a step, and
\* main never waits in a write with the kernel unable to read.
C20_NoDeadlock ==
  (cap_in = PipeCapacity /\ cap_out = PipeCapacity /\ host_pc # "done") =>
    /\ ~HostStuck
    /\ ENABLED NextPipes

\* ---------------------------------------------------------------------
\* Claims about the transfer test (SpecTransfer)
\* ---------------------------------------------------------------------
\* C21: once ReadWriteSpeed has returned, host_buffer2[i] equals
\* host_buffer1[i] at every byte offset i below total_bytes, and
\* bi_directional_speed_test returns passed = true.
C21_RoundTrip ==
  /\ bw_pc \in {"verify", "done"} => BuffersEqual(host_buffer1, host_buffer2)
  /\ bw_pc = "done" => bw_passed

\* ---------------------------------------------------------------------
\* Claims about the scanner's locals (SpecScan)
\* ---------------------------------------------------------------------
\* column 0 and the columns below c of row r at which the colour changes
RunBounds(r, c) == {0} \cup {k \in 1..(c - 1) : ChangeAt(r, k)}

\* the j-th of them from the left, j from 1
RunBound(r, c, j) ==
  CHOOSE k \in RunBounds(r, c) :
    Cardinality({m \in RunBounds(r, c) : m < k}) = j - 1

\* the number of runs completed below column c
RunsCompleted(r, c) == Cardinality(RunBounds(r, c)) - 1

\* the length of the j-th completed run
CompletedRun(r, c, j) == RunBound(r, c, j + 1) - RunBound(r, c, j)

\* the window the claim describes once the columns below c were scanned
ExpectedWindow(r, c) ==
  [i \in 1..5 |->
     IF RunsCompleted(r, c) - 5 + i >= 1
     THEN CompletedRun(r, c, RunsCompleted(r, c) - 5 + i)
     ELSE 0]

\* C22: while finder_scan is in a row, having scanned the columns below
\* x, run_count is the number of colour changes among them, run_length is
\* the number of columns scanned since the last change (or since column
\* 0), and pb holds the lengths of the last min(run_count, 5) completed
\* runs, oldest first and newest in pb[4], the other entries being 0; at
\* x = 0 of every row all of them are 0.
C22_Window ==
  pc = "columns" =>
    /\ run_count = RunsCompleted(y, x)
    /\ run_length = x - RunBound(y, x, RunsCompleted(y, x) + 1)
    /\ pb = ExpectedWindow(y, x)
    /\ x = 0 => (run_count = 0 /\ run_length = 0 /\ last_color = 0
                 /\ pb = <<0, 0, 0, 0, 0>>)

\* a later row of the stacked grid scanned to its end: six runs were
\* completed, so the oldest has left the window
C22_Witness ==
  /\ pc = "columns"
  /\ y >= 1
  /\ x = w
  /\ run_count = 6
  /\ pb = <<1, 1, 3, 1, 1>>
  /\ run_length = 2

\* ---------------------------------------------------------------------
\* Claims about the running sum and the range of the threshold (SpecOtsu)
\* ---------------------------------------------------------------------
\* C24: at every candidate i that otsu evaluates, the runningSum it
\* divides by q1 is the sum of j * histogram[j] over j = 0..i: the three
\* lanes of sumB together hold what a single accumulator would, with no
\* term missing and none late. The sums of the images checked are below
\* 2^24, where single precision holds every integer exactly.
C24_NoLag ==
  \A k \in Evaluated :
    otsu_run[k].runningSum = IntToF32(ExactS1(image, otsu_run[k].i))

\* the sixteen-level image thresholded: more candidates were evaluated
\* than sumB has lanes, each adding to the sum
C24_Witness ==
  /\ image = NearTieImage
  /\ OtsuReturned
  /\ Cardinality(Evaluated) > 3
  /\ \E k \in Evaluated :
       /\ otsu_run[k].i = 229 - 1
       /\ otsu_run[k].runningSum = IntToF32(ExactS1(image, 229 - 1))

\* C25: on an image with at least two distinct values, lowest lo and
\* highest hi, otsu returns a threshold t with lo <= t < hi: some pixel
\* is at most t and some pixel is above t.
C25_Bounds ==
  (OtsuReturned /\ Cardinality(Levels(image)) >= 2) =>
    /\ \A v \in Levels(image) :
         (\A v2 \in Levels(image) : v <= v2) => v <= threshold
    /\ \A v \in Levels(image) :
         (\A v2 \in Levels(image) : v >= v2) => threshold < v
    /\ \E p1 \in DOMAIN image : image[p1] <= threshold
    /\ \E p1 \in DOMAIN image : image[p1] > threshold

\* a two-level image whose threshold is the last level below the upper
\* peak
C25_Witness ==
  /\ OtsuReturned
  /\ Levels(image) = BimodalLevels
  /\ \A v \in Levels(image) : v - 1 <= threshold
  /\ \E v \in Levels(image) : threshold < v

\* ---------------------------------------------------------------------
\* Claims about the probes of test_capstone (SpecScanTall)
\* ---------------------------------------------------------------------
\* the columns test_capstone probes for a call c: ring_right, stone,
\* ring_left
ProbeColumns(c) ==
  <<c.x - c.pb[5],
    c.x - c.pb[5] - c.pb[4] - c.pb[3],
    c.x - c.pb[5] - c.pb[4] - c.pb[3] - c.pb[2] - c.pb[1]>>

\* what the three probes of a call returned, in the same order
ProbeIds(c) == <<c.ring_right, c.stone, c.ring_left>>

\* the first columns of the last, third-last and fifth-last runs
\* completed when the colour changes at column c of row r
ProbedRuns(r, c) ==
  <<RunBound(r, c + 1, RunsCompleted(r, c + 1)),
    RunBound(r, c + 1, RunsCompleted(r, c + 1) - 2),
    RunBound(r, c + 1, RunsCompleted(r, c + 1) - 4)>>

\* C26: for every test_capstone call, made at column x with window pb,
\* the five window entries sum to at most x, the three probe columns lie
\* within the row and are the first columns of the last, third-last and
\* fifth-last completed runs, the pixel at each is not WHITE, and a probe
\* returns -1 only when the region table is full.
C26_ProbesValid ==
  \A k \in DOMAIN calls :
    /\ calls[k].pb[1] + calls[k].pb[2] + calls[k].pb[3]
         + calls[k].pb[4] + calls[k].pb[5] <= calls[k].x
    /\ RunsCompleted(calls[k].y, calls[k].x + 1) >= 5
    /\ ProbeColumns(calls[k]) = ProbedRuns(calls[k].y, calls[k].x)
    /\ \A j \in 1..3 :
         /\ ProbeColumns(calls[k])[j] \in 0..(w - 1)
         /\ PixelAt(w, pixels_mem, ProbeColumns(calls[k])[j], calls[k].y)
              # QUIRC_PIXEL_WHITE
         /\ ProbeIds(calls[k])[j] < 0 => RegionFull(num_regions)

\* the tall grid once the table is full: an early call resolved its
\* three probes and the last one got -1 for each
C26_Witness ==
  /\ h = TallRows
  /\ RegionFull(num_regions)
  /\ Len(calls) >= 2
  /\ \A j \in 1..3 : ProbeIds(calls[1])[j] >= QUIRC_PIXEL_REGION
  /\ \A j \in 1..3 : ProbeIds(calls[Len(calls)])[j] = -1

\* the resolved ids of a call
Resolved(c) == {ProbeIds(c)[j] : j \in 1..3} \ {-1}

C27_Step ==
  Len(calls') > Len(calls) =>
    /\ num_regions <= QUIRC_MAX_REGIONS - 3 =>
         /\ num_regions' = num_regions + 3
         /\ ProbeIds(calls'[Len(calls')])
              = <<num_regions, num_regions + 1, num_regions + 2>>
    /\ (calls'[Len(calls')].ring_left >= 0
          /\ calls'[Len(calls')].ring_right >= 0)
         => calls'[Len(calls')].ring_left # calls'[Len(calls')].ring_right
    /\ \A k \in DOMAIN calls :
         calls[k].y = calls'[Len(calls')].y =>
           Resolved(calls[k]) \cap Resolved(calls'[Len(calls')]) = {}

\* C27: a test_capstone call made while num_regions <= 251 raises
\* num_regions by exactly 3 and returns the ids n, n + 1, n + 2 for
\* ring_right, stone and ring_left; ring_left and ring_right, when both
\* resolve, are never the same region; and no id is returned by two
\* calls of one row, even when they probe the same BLACK pixel.
C27_FreshRegions == [][C27_Step]_vars

\* the row whose two candidates share a run: the pixel probed as
\* ring_right by the first call and as ring_left by the second got two
\* ids
C27_Witness ==
  /\ pixels_mem = SharedRow
  /\ Len(calls) = 2
  /\ ProbeColumns(calls[1])[1] = ProbeColumns(calls[2])[3]
  /\ calls[1].ring_right = QUIRC_PIXEL_REGION
  /\ calls[2].ring_left = QUIRC_PIXEL_REGION + 5

\* C28: a pass starts with num_regions = 2; every id a probe returns
\* from an allocation lies in 2..253, so it is neither WHITE (0) nor
\* BLACK (1); and the region slots 0 and 1 are never written.
C28_IdsAboveLabels ==
  /\ num_regions \in QUIRC_PIXEL_REGION..QUIRC_MAX_REGIONS
  /\ calls = << >> => num_regions = QUIRC_PIXEL_REGION
  /\ \A k \in DOMAIN calls :
       Resolved(calls[k]) \subseteq QUIRC_PIXEL_REGION..(QUIRC_MAX_REGIONS - 1)
  /\ regions[QUIRC_PIXEL_WHITE] = ZeroRegion
  /\ regions[QUIRC_PIXEL_BLACK] = ZeroRegion

\* the highest id was handed out and the slots below 2 are as they were
C28_Witness ==
  /\ \E k \in DOMAIN calls : calls[k].ring_left = QUIRC_MAX_REGIONS - 1
  /\ num_regions = QUIRC_MAX_REGIONS
  /\ regions[QUIRC_PIXEL_REGION].seed.x > 0
  /\ regions[QUIRC_PIXEL_BLACK] = ZeroRegion

\* ---------------------------------------------------------------------
\* Claims about rows scanned in parallel (SpecParallel)
\* ---------------------------------------------------------------------
\* every finder_scan call of the parallel pass has returned
ParallelDone ==
  /\ SequentialDone
  /\ \A r \in DOMAIN scans.rows :
       scans.rows[r].stage = 0 /\ scans.rows[r].x = w

\* the seeds of the regions 2..n-1 of a table, each with the number of
\* regions that hold it
SeedBag(tbl, n) ==
  [s \in {tbl[i].seed : i \in QUIRC_PIXEL_REGION..(n - 1)} |->
     Cardinality({i \in QUIRC_PIXEL_REGION..(n - 1) : tbl[i].seed = s})]

====
